---- MODULE Spec2Model ----
(***************************************************************************)
(* Model of the import-ports dashboard's data pipeline (src/app.py):       *)
(* get_data (loader), classify_port_type (both copies), the filter         *)
(* component's control options, filter_data, display_count and the update  *)
(* callbacks of the seven components (cards, table, four charts, radar).   *)
(*                                                                         *)
(* A nullable value is a sequence of length 0 (null / NA / None) or 1.     *)
(* A string is a sequence of one-character strings, so substring tests     *)
(* and lower-casing are computed, not assumed.  Numeric filter parameters  *)
(* are carried in half units (the parameter 1.5 is the integer 3), so the  *)
(* midpoint (min + max) / 2 offered by the filter component is exact.      *)
(***************************************************************************)
EXTENDS Integers, Sequences, FiniteSets, TLC

VARIABLES
    file,           \* the data file: [exists, rows]
    df,             \* the memoized result of get_data
    filters,        \* the filter parameters of the current interaction
    filtered,       \* result of filter_data(df, filters)
    refiltered,     \* result of filter_data(filtered, filters)
    total_results,  \* output of display_count
    port_name,      \* argument of classify_port_type
    port_type,      \* result of filter_data.classify_port_type
    option_type,    \* result of component.classify_port_type
    controls,       \* the values of the components' own controls
    data_cards,     \* output of the data cards' update
    data_table,     \* output of the data table's update
    port_ranking_value,             \* output of each chart's update
    volume_vs_value_scatter,
    merchandise_diversity_ranking,
    weight_comparison_treemap,
    port_performance_radar,
    modules,                \* what importing and calling each component does
    filter_component,       \* the module globals set by the imports
    data_card_component,
    data_table_component,
    component_registry,
    failed_components,
    layout_items            \* what component() returned

\* the components' controls and outputs, and the layout they are part of
component_vars ==
    <<controls, data_cards, data_table, port_ranking_value,
      volume_vs_value_scatter, merchandise_diversity_ranking,
      weight_comparison_treemap, port_performance_radar,
      modules, filter_component, data_card_component, data_table_component,
      component_registry, failed_components, layout_items>>

vars == <<file, df, filters, filtered, refiltered, total_results,
          port_name, port_type, option_type, component_vars>>

----------------------------------------------------------------------------
(* Bounds *)

MaxFileRows == 2
MaxRows == 2
MaxTopRows == 4
MaxTopN == 2
MaxFragments == 2
MaxViewRows == 3
MaxRankedPorts == 6

----------------------------------------------------------------------------
(* Nullable values and strings *)

Null == <<>>
Some(v) == <<v>>
IsNull(x) == Len(x) = 0
Val(x) == x[1]

Str_all == <<"a", "l", "l">>

lower_char(c) ==
    CASE c = "A" -> "a" [] c = "B" -> "b" [] c = "C" -> "c" [] c = "D" -> "d"
      [] c = "E" -> "e" [] c = "F" -> "f" [] c = "G" -> "g" [] c = "H" -> "h"
      [] c = "I" -> "i" [] c = "J" -> "j" [] c = "K" -> "k" [] c = "L" -> "l"
      [] c = "M" -> "m" [] c = "N" -> "n" [] c = "O" -> "o" [] c = "P" -> "p"
      [] c = "Q" -> "q" [] c = "R" -> "r" [] c = "S" -> "s" [] c = "T" -> "t"
      [] c = "U" -> "u" [] c = "V" -> "v" [] c = "W" -> "w" [] c = "X" -> "x"
      [] c = "Y" -> "y" [] c = "Z" -> "z" [] OTHER -> c

lower(s) == [i \in 1..Len(s) |-> lower_char(s[i])]

\* Python's  kw in s  on strings
Contains(s, kw) ==
    \E i \in 1..(Len(s) - Len(kw) + 1) : SubSeq(s, i, i + Len(kw) - 1) = kw

kw_aerop == <<"a", "e", "r", "o", "p">>
kw_airport == <<"a", "i", "r", "p", "o", "r", "t">>
kw_pto == <<"p", "t", "o">>
kw_puerto == <<"p", "u", "e", "r", "t", "o">>
kw_port == <<"p", "o", "r", "t">>
kw_za == <<"z", "a">>
kw_zona == <<"z", "o", "n", "a">>
kw_frca == <<"f", "r", "c", "a">>

----------------------------------------------------------------------------
(* Port classifier: the copy nested in filter_data and the copy nested in  *)
(* the filter component                                                    *)

classify_port_type(name) ==
    LET port_name_lower == lower(name) IN
    IF Contains(port_name_lower, kw_aerop) \/ Contains(port_name_lower, kw_airport)
    THEN "Airport"
    ELSE IF Contains(port_name_lower, kw_pto) \/ Contains(port_name_lower, kw_puerto)
            \/ Contains(port_name_lower, kw_port)
    THEN "Seaport"
    ELSE IF Contains(port_name_lower, kw_za) \/ Contains(port_name_lower, kw_zona)
            \/ Contains(port_name_lower, kw_frca)
    THEN "Free Zone"
    ELSE "Land Border"

\* the seaport keywords tested before the airport keywords
component_classify_seaport_first(name) ==
    LET port_name_lower == lower(name) IN
    IF Contains(port_name_lower, kw_pto) \/ Contains(port_name_lower, kw_puerto)
       \/ Contains(port_name_lower, kw_port)
    THEN "Seaport"
    ELSE IF Contains(port_name_lower, kw_aerop) \/ Contains(port_name_lower, kw_airport)
    THEN "Airport"
    ELSE IF Contains(port_name_lower, kw_za) \/ Contains(port_name_lower, kw_zona)
            \/ Contains(port_name_lower, kw_frca)
    THEN "Free Zone"
    ELSE "Land Border"

component_classify_port_type(name) ==
    LET port_name_lower == lower(name) IN
    IF Contains(port_name_lower, kw_aerop) \/ Contains(port_name_lower, kw_airport)
    THEN "Airport"
    ELSE IF Contains(port_name_lower, kw_pto) \/ Contains(port_name_lower, kw_puerto)
            \/ Contains(port_name_lower, kw_port)
    THEN "Seaport"
    ELSE IF Contains(port_name_lower, kw_za) \/ Contains(port_name_lower, kw_zona)
            \/ Contains(port_name_lower, kw_frca)
    THEN "Free Zone"
    ELSE "Land Border"

----------------------------------------------------------------------------
(* Dataset loader *)

DataColumns == {"ADUANA", "kilo_neto", "kilo_bruto", "total", "mercaderias_distintas"}

NumericColumns == {"kilo_neto", "kilo_bruto", "total", "mercaderias_distintas"}

\* The outcome of a call: a table, an exception, or no call yet
NotRun == [status |-> "none", rows |-> <<>>, columns |-> {}, exc |-> ""]

Raised(exc) == [status |-> "raised", rows |-> <<>>, columns |-> {}, exc |-> exc]

Table(rows, columns) == [status |-> "ok", rows |-> rows, columns |-> columns, exc |-> ""]

\* pd.read_parquet / pd.read_csv: one record per parsed row, labelled with
\* its position (the RangeIndex); the table has no port_type column yet
read_file(f) ==
    [i \in 1..Len(f.rows) |->
        [index |-> i - 1,
         ADUANA |-> f.rows[i].ADUANA,
         kilo_neto |-> f.rows[i].kilo_neto,
         kilo_bruto |-> f.rows[i].kilo_bruto,
         total |-> f.rows[i].total,
         mercaderias_distintas |-> f.rows[i].mercaderias_distintas,
         port_type |-> Null]]

AllNull(r) == \A c \in DataColumns : IsNull(r[c])

\* df.dropna() with the default how='any'
dropna_any(rows) == SelectSeq(rows, LAMBDA r : \A c \in DataColumns : ~IsNull(r[c]))

\* df.dropna(how='all')
dropna_all(rows) == SelectSeq(rows, LAMBDA r : ~AllNull(r))

get_data(f) ==
    IF ~f.exists
    THEN Raised("FileNotFoundError")
    ELSE Table(dropna_all(read_file(f)), DataColumns)

----------------------------------------------------------------------------
(* Filter parameters *)

TopAll == [kind |-> "all", n |-> 0]
TopInt(n) == [kind |-> "int", n |-> n]

\* rounding down
int_floor(h) == h \div 2

\* int(x) on a number given in half units: truncation toward zero
int_trunc(h) == IF h >= 0 THEN h \div 2 ELSE -((-h) \div 2)

Positions(rows) == 1..Len(rows)

ColumnValues(rows, c) == {Val(rows[i][c]) : i \in {j \in Positions(rows) : ~IsNull(rows[j][c])}}

SetMin(S) == CHOOSE x \in S : \A y \in S : x <= y
SetMax(S) == CHOOSE x \in S : \A y \in S : x >= y

\* df["ADUANA"].dropna().replace('', np.nan).dropna().unique()
unique_ports(rows) == ColumnValues(rows, "ADUANA") \ {<<>>}

port_types(rows) == {component_classify_port_type(p) : p \in unique_ports(rows)}

\* The values the two inputs of a range control hold when the layout is
\* built: the column's min and max (empty inputs, None, for a column
\* without a value)
DefaultRange(rows, c) ==
    LET vs == ColumnValues(rows, c)
    IN  IF vs = {} THEN <<Null, Null>>
        ELSE <<Some(2 * SetMin(vs)), Some(2 * SetMax(vs))>>

\* The (min, max) pairs entered in the two inputs of one range control: the
\* initial pair and pairs of the other values the component offers for them,
\* the midpoint (min + max) / 2 and the extremes swapped, and for the
\* merchandise count the initial min with -0.5 as max
RangeOptions(rows, c) ==
    LET vs == ColumnValues(rows, c)
        lo == 2 * SetMin(vs)
        hi == 2 * SetMax(vs)
        mid == SetMin(vs) + SetMax(vs)
    IN  IF vs = {}
        THEN {DefaultRange(rows, c)}
        ELSE {DefaultRange(rows, c), <<Some(lo), Some(mid)>>,
              <<Some(mid), Some(hi)>>, <<Some(hi), Some(lo)>>,
              <<Some(mid), Some(lo)>>}
             \cup IF c = "mercaderias_distintas" THEN {<<Some(lo), Some(-1)>>} ELSE {}

\* The values of a multi-select dropdown with the option all and the given
\* other options: nothing selected, "all" alone, one option, every other
\* option, and "all" together with the others
Selections(all, options) ==
    {{}, {all}, options, options \cup {all}} \cup {{o} : o \in options}

\* The values of the four range controls when the control of column c holds
\* the pair r and the others hold their initial values
RangesWith(rows, c, r) ==
    [k \in NumericColumns |-> IF k = c THEN r ELSE DefaultRange(rows, k)]

\* The top-N dropdown offers "all", 5, 10, 15, 20; the model offers
\* "all", 1 .. MaxTopN for its smaller tables
TopOptions == {TopAll} \cup {TopInt(n) : n \in 1..MaxTopN}

MakeFilters(sel, top, types, t, n, g, m) ==
    [port_selection |-> sel,
     total_value_min |-> t[1], total_value_max |-> t[2],
     net_weight_min |-> n[1], net_weight_max |-> n[2],
     gross_weight_min |-> g[1], gross_weight_max |-> g[2],
     merchandise_count_min |-> m[1], merchandise_count_max |-> m[2],
     top_ports_filter |-> top,
     port_type_filter |-> types]

\* The values the controls hold when the layout is built
DefaultFilters(rows) ==
    MakeFilters({Str_all}, TopAll, {"all"},
                DefaultRange(rows, "total"), DefaultRange(rows, "kilo_neto"),
                DefaultRange(rows, "kilo_bruto"),
                DefaultRange(rows, "mercaderias_distintas"))

----------------------------------------------------------------------------
(* Filter engine *)

\* Order of df.nlargest(n, "total"): greater totals first, rows without a
\* total last, equal keys in table order (keep='first')
Precedes(rows, j, i) ==
    LET tj == rows[j].total
        ti == rows[i].total
    IN  \/ ~IsNull(tj) /\ IsNull(ti)
        \/ ~IsNull(tj) /\ ~IsNull(ti) /\ Val(tj) > Val(ti)
        \/ /\ IsNull(tj) = IsNull(ti)
           /\ IsNull(tj) \/ Val(tj) = Val(ti)
           /\ j < i

\* df.nlargest(top_n, "total")["ADUANA"].tolist(), as a set
nlargest_ports(rows, top_n) ==
    {rows[i].ADUANA :
        i \in {k \in Positions(rows) :
                 Cardinality({j \in Positions(rows) : Precedes(rows, j, k)}) < top_n}}

\* df[df["ADUANA"].isin(values)]
isin_ports(rows, values) == SelectSeq(rows, LAMBDA r : r.ADUANA \in values)

\* the membership mask negated
select_ports_negated(rows, f) ==
    IF Cardinality(f.port_selection) > 0 /\ Str_all \notin f.port_selection
    THEN SelectSeq(rows, LAMBDA r : r.ADUANA \notin {Some(p) : p \in f.port_selection})
    ELSE rows

select_ports(rows, f) ==
    IF Cardinality(f.port_selection) > 0 /\ Str_all \notin f.port_selection
    THEN isin_ports(rows, {Some(p) : p \in f.port_selection})
    ELSE rows

select_top(rows, f) ==
    IF f.top_ports_filter # TopAll
    THEN isin_ports(rows, nlargest_ports(rows, f.top_ports_filter.n))
    ELSE rows

type_filter_on(f) ==
    Cardinality(f.port_type_filter) > 0 /\ "all" \notin f.port_type_filter

\* the column added and the index reset to row positions
with_port_type_reindexed(rows) ==
    [i \in Positions(rows) |->
        [rows[i] EXCEPT !.port_type = Some(classify_port_type(Val(rows[i].ADUANA))),
                        !.index = i - 1]]

\* df["port_type"] = df["ADUANA"].apply(classify_port_type)
with_port_type(rows) ==
    [i \in Positions(rows) |->
        [rows[i] EXCEPT !.port_type = Some(classify_port_type(Val(rows[i].ADUANA)))]]

\* the column added but the rows not selected by it
select_types_unfiltered(rows, f) ==
    IF type_filter_on(f) THEN with_port_type(rows) ELSE rows

select_types(rows, f) ==
    IF type_filter_on(f)
    THEN SelectSeq(with_port_type(rows), LAMBDA r : Val(r.port_type) \in f.port_type_filter)
    ELSE rows

\* the lower bound excluded
in_float_range_exclusive(x, lo, hi) ==
    ~IsNull(x) /\ 2 * Val(x) > Val(lo) /\ 2 * Val(x) <= Val(hi)

\* a null passes the comparison
in_float_range_null_passes(x, lo, hi) ==
    IsNull(x) \/ (2 * Val(x) >= Val(lo) /\ 2 * Val(x) <= Val(hi))

\* df[df[c] >= float(lo)] then df[df[c] <= float(hi)]: a null compares as NA
\* and the row is not selected
in_float_range(x, lo, hi) ==
    ~IsNull(x) /\ 2 * Val(x) >= Val(lo) /\ 2 * Val(x) <= Val(hi)

\* the same with int(lo), int(hi)
in_int_range(x, lo, hi) ==
    ~IsNull(x) /\ Val(x) >= int_trunc(Val(lo)) /\ Val(x) <= int_trunc(Val(hi))

select_ranges(rows, f) ==
    SelectSeq(rows, LAMBDA r :
        /\ in_float_range(r.total, f.total_value_min, f.total_value_max)
        /\ in_float_range(r.kilo_neto, f.net_weight_min, f.net_weight_max)
        /\ in_float_range(r.kilo_bruto, f.gross_weight_min, f.gross_weight_max)
        /\ in_int_range(r.mercaderias_distintas, f.merchandise_count_min,
                        f.merchandise_count_max))

BoundNames ==
    {"total_value_min", "total_value_max", "net_weight_min", "net_weight_max",
     "gross_weight_min", "gross_weight_max", "merchandise_count_min",
     "merchandise_count_max"}

\* filter_data with the top-N step after the port-type and range steps
filter_data_top_last(t, f) ==
    LET s1 == select_ports(t.rows, f)
        s2 == select_types(s1, f)
        s3 == select_ranges(s2, f)
    IN  IF type_filter_on(f) /\ \E i \in Positions(s1) : IsNull(s1[i].ADUANA)
        THEN Raised("AttributeError")
        ELSE IF \E b \in BoundNames : IsNull(f[b])
        THEN Raised("TypeError")
        ELSE Table(select_top(s3, f),
                   IF type_filter_on(f) THEN t.columns \cup {"port_type"} ELSE t.columns)

filter_data(t, f) ==
    LET s1 == select_ports(t.rows, f)
        s2 == select_top(s1, f)
        s3 == select_types(s2, f)
    IN  IF type_filter_on(f) /\ \E i \in Positions(s2) : IsNull(s2[i].ADUANA)
        THEN Raised("AttributeError")   \* None / NaN has no .lower()
        ELSE IF \E b \in BoundNames : IsNull(f[b])
        THEN Raised("TypeError")        \* float(None), int(None)
        ELSE Table(select_ranges(s3, f),
                   IF type_filter_on(f) THEN t.columns \cup {"port_type"} ELSE t.columns)

filter_data_argument_uncopied(t, f) ==
    LET argument == "argument"
        selection == "selection"
        df0 == argument
        df1 == IF Cardinality(f.port_selection) > 0 /\ Str_all \notin f.port_selection
               THEN selection ELSE df0
        df2 == IF f.top_ports_filter # TopAll THEN selection ELSE df1
    IN  IF /\ t.status = "ok"
           /\ type_filter_on(f)
           /\ \A i \in Positions(t.rows) : ~IsNull(t.rows[i].ADUANA)
           /\ df2 = argument
        THEN Table(with_port_type(t.rows), t.columns \cup {"port_type"})
        ELSE t

\* The table filter_data was called with, as the caller finds it after the
\* call. The name df is bound to df.copy() first and to a new frame by
\* every df = df[...]; the one assignment in place, df["port_type"] = ...,
\* changes the frame df is bound to when apply has returned
filter_data_argument(t, f) ==
    LET argument == "argument"
        selection == "selection"
        df0 == "copy"
        df1 == IF Cardinality(f.port_selection) > 0 /\ Str_all \notin f.port_selection
               THEN selection ELSE df0
        df2 == IF f.top_ports_filter # TopAll THEN selection ELSE df1
    IN  IF /\ t.status = "ok"
           /\ type_filter_on(f)
           /\ \A i \in Positions(t.rows) : ~IsNull(t.rows[i].ADUANA)
           /\ df2 = argument
        THEN Table(with_port_type(t.rows), t.columns \cup {"port_type"})
        ELSE t

\* display_count's text "<filtered_count> / <count> rows"
CountText(filtered_count, count) ==
    [status |-> "ok", filtered_count |-> filtered_count, count |-> count]

CountNotRun == [status |-> "none", filtered_count |-> 0, count |-> 0]

CountRaised == [status |-> "raised", filtered_count |-> 0, count |-> 0]

----------------------------------------------------------------------------
(* Input data *)

Row(a, t, n, g, m) ==
    [ADUANA |-> a, total |-> t, kilo_neto |-> n, kilo_bruto |-> g,
     mercaderias_distintas |-> m]

N_AEROPTO == <<"A", "e", "r", "o", "p", "t", "o">>
N_PTOZA == <<"P", "t", "o", "Z", "a">>
N_ZA == <<"Z", "A">>
N_CDE == <<"C", "D", "E">>
N_ENC == <<"E", "N", "C">>

SeqsUpTo(S, n) == UNION {[1..k -> S] : k \in 0..n}

File(rows) == [exists |-> TRUE, rows |-> rows]

AbsentFile == [exists |-> FALSE, rows |-> <<>>]

\* Loader inputs: every pattern of null and non-null fields in a row
LoadRows ==
    {Row(a, t, n, g, m) : a \in {Null, Some(N_ZA)}, t \in {Null, Some(1)},
                          n \in {Null, Some(1)}, g \in {Null, Some(1)},
                          m \in {Null, Some(1)}}

LoadFiles == {AbsentFile} \cup {File(rows) : rows \in SeqsUpTo(LoadRows, MaxFileRows)}

\* Filter inputs: offices of the four port types, rows that differ in each
\* numeric column, a row without office name and a row without total
SampleRows ==
    <<Row(Some(N_AEROPTO), Some(2), Some(1), Some(1), Some(1)),
      Row(Some(N_PTOZA), Some(1), Some(1), Some(1), Some(2)),
      Row(Some(N_ZA), Some(2), Some(2), Some(1), Some(1)),
      Row(Some(N_CDE), Some(2), Some(1), Some(2), Some(1)),
      Row(Null, Some(1), Some(1), Some(1), Some(1)),
      Row(Some(N_CDE), Null, Some(1), Some(1), Some(1))>>

\* the rows of s at the positions in P, in their order
RowsAt(s, P) ==
    LET F[i \in 0..Len(s)] ==
            IF i = 0 THEN <<>>
            ELSE IF i \in P THEN Append(F[i - 1], s[i]) ELSE F[i - 1]
    IN  F[Len(s)]

\* files that hold at most n of the rows of s
Excerpts(s, n) == {RowsAt(s, P) : P \in {Q \in SUBSET (1..Len(s)) : Cardinality(Q) <= n}}

\* Filter inputs for the top-N step: offices with several rows
TopRows ==
    {Row(Some(N_ENC), Some(2), Some(1), Some(1), Some(1)),
     Row(Some(N_CDE), Some(3), Some(1), Some(1), Some(1)),
     Row(Some(N_CDE), Some(1), Some(1), Some(1), Some(1))}

\* and for the range step: a row without each of the three other numeric
\* values and a row with a merchandise count of 0
FilterFiles ==
    {File(rows) : rows \in Excerpts(SampleRows, MaxRows) \cup SeqsUpTo(TopRows, MaxTopRows)
                          \cup Excerpts(<<Row(Some(N_ZA), Some(1), Null, Some(1), Some(1)),
                                          Row(Some(N_ZA), Some(1), Some(1), Null, Some(1)),
                                          Row(Some(N_ZA), Some(1), Some(1), Some(1), Null),
                                          Row(Some(N_CDE), Some(2), Some(1), Some(1), Some(0)),
                                          Row(Some(N_AEROPTO), Some(2), Some(1), Some(1), Some(1))>>,
                                        2)}

\* Classifier inputs: names made of at most MaxFragments fragments
Fragments ==
    {<<"A", "E", "R", "O", "P">>, <<"a", "i", "r", "p", "o", "r", "t">>,
     <<"P", "t", "o">>, <<"p", "u", "e", "r", "t", "o">>, <<"P", "O", "R", "T">>,
     <<"Z", "A">>, <<"z", "o", "n", "a">>, <<"F", "r", "c", "a">>,
     <<"c", "d", "e">>, <<" ">>}

RECURSIVE Concat(_)
Concat(ss) == IF ss = <<>> THEN <<>> ELSE Head(ss) \o Concat(Tail(ss))

PortNames == {Concat(ss) : ss \in SeqsUpTo(Fragments, MaxFragments)}

----------------------------------------------------------------------------
(* Aggregation shared by the components *)

\* The place of a character among the characters of the model's office
\* names in code-point order
ord(c) ==
    LET CodePoints ==
            <<" ", "A", "B", "C", "D", "E", "F", "G", "H", "I", "J", "K", "L", "M",
              "N", "O", "P", "Q", "R", "S", "T", "U", "V", "W", "X", "Y", "Z",
              "a", "b", "c", "d", "e", "f", "g", "h", "i", "j", "k", "l", "m",
              "n", "o", "p", "q", "r", "s", "t", "u", "v", "w", "x", "y", "z">>
    IN  CHOOSE i \in 1..Len(CodePoints) : CodePoints[i] = c

\* a < b for two strings
RECURSIVE str_lt(_, _)
str_lt(a, b) ==
    IF b = <<>> THEN FALSE
    ELSE IF a = <<>> THEN TRUE
    ELSE IF ord(a[1]) # ord(b[1]) THEN ord(a[1]) < ord(b[1])
    ELSE str_lt(Tail(a), Tail(b))

RECURSIVE sorted_keys(_)
sorted_keys(S) ==
    IF S = {} THEN <<>>
    ELSE LET k == CHOOSE x \in S : \A y \in S : x = y \/ str_lt(x, y)
         IN  <<k>> \o sorted_keys(S \ {k})

\* The group keys of df.groupby('ADUANA'): the distinct names in ascending
\* order; rows without a name belong to no group (dropna=True)
group_keys(rows) == sorted_keys(ColumnValues(rows, "ADUANA"))

\* Sum of column c over the rows lo..hi of office o, nulls skipped
RECURSIVE sum_between(_, _, _, _, _)
sum_between(rows, c, o, lo, hi) ==
    IF lo > hi THEN 0
    ELSE IF lo = hi
    THEN IF rows[lo].ADUANA = Some(o) /\ ~IsNull(rows[lo][c])
         THEN Val(rows[lo][c]) ELSE 0
    ELSE LET mid == (lo + hi) \div 2
         IN  sum_between(rows, c, o, lo, mid) + sum_between(rows, c, o, mid + 1, hi)

group_sum(rows, c, o) == sum_between(rows, c, o, 1, Len(rows))

\* df.groupby('ADUANA').agg({...: 'sum'}).reset_index(): one row per group
\* key with the sums of the four numeric columns
groupby_sum(rows) ==
    LET keys == group_keys(rows)
    IN  [k \in 1..Len(keys) |->
            [ADUANA |-> Some(keys[k]),
             total |-> Some(group_sum(rows, "total", keys[k])),
             kilo_neto |-> Some(group_sum(rows, "kilo_neto", keys[k])),
             kilo_bruto |-> Some(group_sum(rows, "kilo_bruto", keys[k])),
             mercaderias_distintas |->
                 Some(group_sum(rows, "mercaderias_distintas", keys[k]))]]

\* df.head(n)
head(rows, n) == SubSeq(rows, 1, IF Len(rows) < n THEN Len(rows) ELSE n)

\* df.sort_values(c, ascending=...): the rows in key order; rows without
\* a value go last and equal keys are left in their prior order, as the
\* sort leaves them for tables of the model's sizes
RECURSIVE sort_values(_, _, _)
sort_values(rows, c, ascending) ==
    IF rows = <<>> THEN <<>>
    ELSE LET n == Len(rows)
             sorted == sort_values(SubSeq(rows, 1, n - 1), c, ascending)
             r == rows[n]
             stays_ahead(q) ==
                 \/ IsNull(r[c])
                 \/ /\ ~IsNull(q[c])
                    /\ IF ascending THEN Val(q[c]) <= Val(r[c])
                       ELSE Val(q[c]) >= Val(r[c])
             k == Cardinality({i \in Positions(sorted) : stays_ahead(sorted[i])})
         IN  SubSeq(sorted, 1, k) \o <<r>> \o SubSeq(sorted, k + 1, n - 1)

\* The members of a set of numbers, greatest first
RECURSIVE descending(_)
descending(S) ==
    IF S = {} THEN <<>> ELSE <<SetMax(S)>> \o descending(S \ {SetMax(S)})

\* rank(method='min', ascending=False)
rank_min(rows, c) ==
    [k \in Positions(rows) |->
        1 + Cardinality({j \in Positions(rows) : Val(rows[j][c]) > Val(rows[k][c])})]

\* Series.rank(method='dense', ascending=False).astype(int): the place of
\* each value among the distinct values, greatest first
rank_dense(rows, c) ==
    LET distinct == descending(ColumnValues(rows, c))
    IN  [k \in Positions(rows) |->
            CHOOSE p \in 1..Len(distinct) : distinct[p] = Val(rows[k][c])]

----------------------------------------------------------------------------
(* Component outputs *)

\* A figure: what kind of trace it holds ("none" for a figure with only a
\* title and an annotation), its title, its annotation and the trace data
Figure(kind, title, text, data) ==
    [kind |-> kind, title |-> title, text |-> text, data |-> data]

\* go.Figure() with update_layout(title=..., annotations=[{"text": ...}])
empty_fig(title, text) == Figure("none", title, text, <<>>)

\* The outputs (figure, error) of a chart's update; status "none" before
\* the callback has run
ChartNotRun == [status |-> "none", figure |-> empty_fig("", ""), error |-> ""]

\* What a chart's _update_logic gives its caller: a figure or an exception
Drawn(figure) == [status |-> "ok", figure |-> figure, exc |-> ""]

ChartRaised(exc) == [status |-> "raised", figure |-> empty_fig("", ""), exc |-> exc]

\* update of a chart, given its error title and what _update_logic did:
\* the figure of _update_logic with an empty error, or
\* the chart's error figure with the message of the exception caught
chart_update(error_title, outcome) ==
    IF outcome.status = "ok"
    THEN [status |-> "returned", figure |-> outcome.figure, error |-> ""]
    ELSE [status |-> "returned",
          figure |-> empty_fig(error_title, "An error occurred while updating this chart"),
          error |-> "Error updating chart"]

----------------------------------------------------------------------------
(* Data table *)

\* df.head(10_000)
TableRowCap == 10000

TableColumns ==
    <<"total_rank", "ADUANA", "total", "kilo_neto", "kilo_bruto",
      "mercaderias_distintas", "weight_rank", "diversity_rank">>

\* port_rankings with its three rank columns
with_ranks(port_rankings) ==
    LET total_rank == rank_dense(port_rankings, "total")
        weight_rank == rank_dense(port_rankings, "kilo_neto")
        diversity_rank == rank_dense(port_rankings, "mercaderias_distintas")
    IN  [k \in Positions(port_rankings) |->
            [ADUANA |-> port_rankings[k].ADUANA,
             total |-> port_rankings[k].total,
             kilo_neto |-> port_rankings[k].kilo_neto,
             kilo_bruto |-> port_rankings[k].kilo_bruto,
             mercaderias_distintas |-> port_rankings[k].mercaderias_distintas,
             total_rank |-> Some(total_rank[k]),
             weight_rank |-> Some(weight_rank[k]),
             diversity_rank |-> Some(diversity_rank[k])]]

TableLogic(column_defs, row_data) ==
    [status |-> "ok", columnDefs |-> column_defs, rowData |-> row_data]

TableRaised == [status |-> "raised", columnDefs |-> <<>>, rowData |-> <<>>]

\* _update_logic of the data table with the rows sorted by ascending total
data_table_update_logic_ascending(t, f) ==
    LET filtered_df == filter_data(t, f)
        capped == head(filtered_df.rows, TableRowCap)
        port_rankings == sort_values(with_ranks(groupby_sum(capped)), "total", TRUE)
    IN  IF filtered_df.status # "ok" THEN TableRaised
        ELSE IF Len(filtered_df.rows) = 0 THEN TableLogic(<<>>, <<>>)
        ELSE TableLogic(TableColumns, port_rankings)

\* _update_logic of the data table
data_table_update_logic(t, f) ==
    LET filtered_df == filter_data(t, f)
        capped == head(filtered_df.rows, TableRowCap)
        port_rankings == sort_values(with_ranks(groupby_sum(capped)), "total", FALSE)
    IN  IF filtered_df.status # "ok" THEN TableRaised
        ELSE IF Len(filtered_df.rows) = 0 THEN TableLogic(<<>>, <<>>)
        ELSE TableLogic(TableColumns, port_rankings)

\* The outputs (columnDefs, rowData, title) of the data table's update:
\* the title is f"Showing {len(row_data)} ports ranked by import
\* operations" or "Error loading data"
DataTableNotRun ==
    [status |-> "none", columnDefs |-> <<>>, rowData |-> <<>>,
     title |-> [text |-> "", ports |-> Null]]

----------------------------------------------------------------------------
(* Data cards *)

\* One card's text: a fixed text, a formatted number (after the text) or
\* an office name
Card(text, number, name) == [text |-> text, number |-> number, name |-> name]

\* f"{num / den:,.0f}" for num >= 0: the nearest integer, a half to the even one
round_half_even(num, den) ==
    LET q == num \div den
        r == num % den
    IN  IF 2 * r < den THEN q
        ELSE IF 2 * r > den THEN q + 1
        ELSE IF q % 2 = 0 THEN q ELSE q + 1

\* str(top_port)[:20] + "..." if len(str(top_port)) > 20 else str(top_port)
top_port_formatted(top_port) ==
    LET str == IF IsNull(top_port) THEN <<"N", "o", "n", "e">> ELSE Val(top_port)
    IN  IF Len(str) > 20 THEN SubSeq(str, 1, 20) \o <<".", ".", ".">> ELSE str

\* df["kilo_neto"].idxmax(): the first row with the greatest net weight
idxmax(rows, c) ==
    CHOOSE i \in Positions(rows) :
        /\ ~IsNull(rows[i][c])
        /\ \A j \in Positions(rows) :
              ~IsNull(rows[j][c]) =>
                  \/ Val(rows[j][c]) < Val(rows[i][c])
                  \/ Val(rows[j][c]) = Val(rows[i][c]) /\ i <= j

\* Sum of a column, nulls skipped
RECURSIVE column_sum(_, _)
column_sum(rows, c) ==
    IF rows = <<>> THEN 0
    ELSE (IF IsNull(Head(rows)[c]) THEN 0 ELSE Val(Head(rows)[c])) + column_sum(Tail(rows), c)

CardsNotRun == [status |-> "none", children |-> <<>>]

\* update of the data cards without the check for an empty table:
\* idxmax of an empty column raises
data_cards_update_unchecked(t, f) ==
    LET filtered_df == filter_data(t, f)
        rows == filtered_df.rows
        total_ports == Len(rows)
        net == column_sum(rows, "kilo_neto")
    IN  IF filtered_df.status # "ok" \/ total_ports = 0
        THEN [status |-> "returned", children |-> [k \in 1..5 |-> Card("Error", Null, <<>>)]]
        ELSE [status |-> "returned", children |->
                <<Card("", Some(total_ports), <<>>),
                  Card("", Some(round_half_even(net, 1000)), <<>>),
                  Card("", Some(round_half_even(net, 1000 * total_ports)), <<>>),
                  Card("", Null, top_port_formatted(rows[idxmax(rows, "kilo_neto")].ADUANA)),
                  Card("$", Some(column_sum(rows, "total")), <<>>)>>]

\* update of the data cards
data_cards_update(t, f) ==
    LET filtered_df == filter_data(t, f)
        rows == filtered_df.rows
        total_ports == Len(rows)
        net == column_sum(rows, "kilo_neto")
    IN  IF filtered_df.status # "ok"
        THEN [status |-> "returned", children |-> [k \in 1..5 |-> Card("Error", Null, <<>>)]]
        ELSE IF total_ports = 0
        THEN [status |-> "returned", children |-> [k \in 1..5 |-> Card("No Data", Null, <<>>)]]
        ELSE [status |-> "returned", children |->
                <<Card("", Some(total_ports), <<>>),
                  Card("", Some(round_half_even(net, 1000)), <<>>),
                  Card("", Some(round_half_even(net, 1000 * total_ports)), <<>>),
                  Card("", Null, top_port_formatted(rows[idxmax(rows, "kilo_neto")].ADUANA)),
                  Card("$", Some(column_sum(rows, "total")), <<>>)>>]

----------------------------------------------------------------------------
(* Port ranking by value *)

\* df.groupby('ADUANA')['total'].sum().reset_index()
groupby_total(rows) ==
    LET keys == group_keys(rows)
    IN  [k \in 1..Len(keys) |->
            [ADUANA |-> Some(keys[k]), total |-> Some(group_sum(rows, "total", keys[k]))]]

\* The ranking with the second sort in the requested order
ranking_unreversed(rows, top_n, sort_order) ==
    LET ascending == sort_order = "asc"
        port_totals == head(sort_values(groupby_total(rows), "total", ascending), top_n)
    IN  sort_values(port_totals, "total", sort_order # "desc")

\* port_totals of the bar ranking: sorted as requested, cut to top_n, then
\* sorted the other way round (total_billions is total on another scale)
ranking(rows, top_n, sort_order) ==
    LET ascending == sort_order = "asc"
        port_totals == head(sort_values(groupby_total(rows), "total", ascending), top_n)
    IN  sort_values(port_totals, "total", sort_order = "desc")

NoDataFigure == empty_fig("No data available", "No data is available to display")

\* _update_logic of port_ranking_value
port_ranking_value_update_logic(t, f, c) ==
    LET filtered_df == filter_data(t, f)
        top_n == IF IsNull(c.port_ranking_value_top_n) THEN 10
                 ELSE Val(c.port_ranking_value_top_n)
        sort_order == IF IsNull(c.port_ranking_value_sort_order) THEN "desc"
                      ELSE Val(c.port_ranking_value_sort_order)
    IN  IF filtered_df.status # "ok" THEN ChartRaised(filtered_df.exc)
        ELSE IF Len(filtered_df.rows) = 0 THEN Drawn(NoDataFigure)
        ELSE Drawn(Figure("bar", "", "", ranking(filtered_df.rows, top_n, sort_order)))

----------------------------------------------------------------------------
(* Numbers of the charts: fractions, inf and NaN *)

RECURSIVE gcd(_, _)
gcd(a, b) == IF b = 0 THEN a ELSE gcd(b, a % b)

NaN == [kind |-> "nan", num |-> 0, den |-> 1]

Inf == [kind |-> "inf", num |-> 1, den |-> 1]

\* the float n / d, d > 0, n >= 0, in lowest terms
Num(n, d) == [kind |-> "num", num |-> n \div gcd(n, d), den |-> d \div gcd(n, d)]

\* a / b for two floats that are not negative
divide(a, b) ==
    IF a.kind = "nan" \/ b.kind = "nan" THEN NaN
    ELSE IF b.kind = "inf" THEN IF a.kind = "inf" THEN NaN ELSE Num(0, 1)
    ELSE IF a.kind = "inf" THEN Inf
    ELSE IF b.num = 0 THEN IF a.num = 0 THEN NaN ELSE Inf
    ELSE Num(a.num * b.den, a.den * b.num)

\* a - b for two floats with a >= b
subtract(a, b) ==
    IF a.kind = "nan" \/ b.kind = "nan" THEN NaN
    ELSE IF a.kind = "inf" THEN IF b.kind = "inf" THEN NaN ELSE Inf
    ELSE Num(a.num * b.den - b.num * a.den, a.den * b.den)

\* a <= b for two floats, false when either is NaN
float_le(a, b) ==
    /\ a.kind # "nan"
    /\ b.kind # "nan"
    /\ \/ b.kind = "inf"
       \/ a.kind = "num" /\ a.num * b.den <= b.num * a.den

\* Series.max() and Series.min(): NaN is skipped; NaN for a series of NaN
series_max(xs) ==
    LET S == {xs[k] : k \in {j \in DOMAIN xs : xs[j].kind # "nan"}}
    IN  IF S = {} THEN NaN ELSE CHOOSE x \in S : \A y \in S : float_le(y, x)

series_min(xs) ==
    LET S == {xs[k] : k \in {j \in DOMAIN xs : xs[j].kind # "nan"}}
    IN  IF S = {} THEN NaN ELSE CHOOSE x \in S : \A y \in S : float_le(x, y)

\* a != b for two floats: true when either is NaN
float_ne(a, b) == a.kind = "nan" \/ b.kind = "nan" \/ a # b

----------------------------------------------------------------------------
(* Volume vs value scatter *)

to_float(x) == IF IsNull(x) THEN NaN ELSE Num(Val(x), 1)

\* normalized_size: min_size + (max_size - min_size) * (base_size - min) /
\* (max - min) with min_size = 5 * size_factor and max_size = 50 *
\* size_factor, size_factor given in tenths; 0 / 0 is NaN
normalized_size_by_max(rows, size_factor) ==
    LET base == ColumnValues(rows, "mercaderias_distintas")
        span == SetMax(base) - SetMin(base)
    IN  [k \in Positions(rows) |->
            IF span = 0 THEN NaN
            ELSE Num(5 * size_factor * SetMax(base)
                       + 45 * size_factor * Val(rows[k].mercaderias_distintas),
                     10 * SetMax(base))]

normalized_size(rows, size_factor) ==
    LET base == ColumnValues(rows, "mercaderias_distintas")
        span == SetMax(base) - SetMin(base)
    IN  [k \in Positions(rows) |->
            IF span = 0 THEN NaN
            ELSE Num(5 * size_factor * span
                       + 45 * size_factor * (Val(rows[k].mercaderias_distintas) - SetMin(base)),
                     10 * span)]

\* _update_logic of volume_vs_value_scatter: px.scatter rejects a marker
\* size that is NaN with a ValueError
volume_vs_value_scatter_update_logic(t, f, c) ==
    LET filtered_df == filter_data(t, f)
        weight_type == IF IsNull(c.volume_vs_value_scatter_weight_type) THEN "kilo_neto"
                       ELSE Val(c.volume_vs_value_scatter_weight_type)
        size_factor == IF IsNull(c.volume_vs_value_scatter_size_factor) THEN 10
                       ELSE Val(c.volume_vs_value_scatter_size_factor)
        df_clean == SelectSeq(filtered_df.rows, LAMBDA r :
                        /\ ~IsNull(r.total)
                        /\ ~IsNull(r[weight_type])
                        /\ ~IsNull(r.mercaderias_distintas))
        size == normalized_size(df_clean, size_factor)
    IN  IF filtered_df.status # "ok" THEN ChartRaised(filtered_df.exc)
        ELSE IF Len(filtered_df.rows) = 0 THEN Drawn(NoDataFigure)
        ELSE IF Len(df_clean) = 0
        THEN Drawn(empty_fig("No valid data available", "No valid data points after filtering"))
        ELSE IF \E k \in Positions(df_clean) : size[k].kind = "nan"
        THEN ChartRaised("ValueError")
        ELSE Drawn(Figure("scatter", "", "",
                [k \in Positions(df_clean) |->
                    [ADUANA |-> df_clean[k].ADUANA,
                     x |-> df_clean[k][weight_type],
                     y |-> df_clean[k].total,
                     size |-> size[k]]]))

----------------------------------------------------------------------------
(* Merchandise diversity ranking *)

\* df[df['mercaderias_distintas'] >= float(min_merchandise)] and the same
\* with <= for max_merchandise, each applied when its input holds a value
within_merchandise(rows, min_merchandise, max_merchandise) ==
    SelectSeq(rows, LAMBDA r :
        /\ IsNull(min_merchandise) \/
              (~IsNull(r.mercaderias_distintas)
                  /\ Val(r.mercaderias_distintas) >= Val(min_merchandise))
        /\ IsNull(max_merchandise) \/
              (~IsNull(r.mercaderias_distintas)
                  /\ Val(r.mercaderias_distintas) <= Val(max_merchandise)))

\* _update_logic of merchandise_diversity_ranking
merchandise_diversity_ranking_update_logic(t, f, c) ==
    LET filtered_df == filter_data(t, f)
        sort_metric == IF IsNull(c.merchandise_diversity_ranking_sort_metric)
                       THEN "mercaderias_distintas"
                       ELSE Val(c.merchandise_diversity_ranking_sort_metric)
        rows == within_merchandise(filtered_df.rows,
                                   c.merchandise_diversity_ranking_min_merchandise,
                                   c.merchandise_diversity_ranking_max_merchandise)
        df_sorted == sort_values(rows, sort_metric, FALSE)
    IN  IF filtered_df.status # "ok" THEN ChartRaised(filtered_df.exc)
        ELSE IF Len(filtered_df.rows) = 0 THEN Drawn(NoDataFigure)
        ELSE IF Len(rows) = 0
        THEN Drawn(empty_fig("No data available after filtering",
                             "No data matches the current filter criteria"))
        ELSE Drawn(Figure("bar", "", "",
                [k \in Positions(df_sorted) |->
                    [ADUANA |-> df_sorted[k].ADUANA, y |-> df_sorted[k][sort_metric]]]))

----------------------------------------------------------------------------
(* Weight comparison treemap *)

\* the least value as threshold
quantile_least(xs) ==
    LET n == Len(xs)
        sorted == sort_values([k \in 1..n |-> [v |-> Some(xs[k])]], "v", TRUE)
    IN  IF n = 0 THEN Null ELSE Some(20 * Val(sorted[1].v))

\* Series.quantile(0.05) of the values xs, times 20: linear interpolation
\* between the two values around position (n - 1) * 0.05 of the sorted
\* series; Null (NaN) for an empty series
quantile_05(xs) ==
    LET n == Len(xs)
        sorted == sort_values([k \in 1..n |-> [v |-> Some(xs[k])]], "v", TRUE)
        below == (n - 1) \div 20
        part == (n - 1) % 20
        low == Val(sorted[below + 1].v)
        high == IF below + 2 <= n THEN Val(sorted[below + 2].v) ELSE low
    IN  IF n = 0 THEN Null ELSE Some(20 * low + part * (high - low))

\* The trim that keeps weights strictly above the threshold
trim_above(df_agg, weight_type) ==
    LET min_weight_threshold ==
            quantile_05([k \in Positions(df_agg) |-> Val(df_agg[k][weight_type])])
    IN  SelectSeq(df_agg, LAMBDA r :
            /\ ~IsNull(min_weight_threshold)
            /\ 20 * Val(r[weight_type]) > Val(min_weight_threshold))

\* df_agg[df_agg['weight_millions'] >= min_weight_threshold]
\* (weight_millions is the summed weight on another scale)
trim(df_agg, weight_type) ==
    LET min_weight_threshold ==
            quantile_05([k \in Positions(df_agg) |-> Val(df_agg[k][weight_type])])
    IN  SelectSeq(df_agg, LAMBDA r :
            /\ ~IsNull(min_weight_threshold)
            /\ 20 * Val(r[weight_type]) >= Val(min_weight_threshold))

\* _update_logic of weight_comparison_treemap
weight_comparison_treemap_update_logic(t, f, c) ==
    LET filtered_df == filter_data(t, f)
        weight_type == IF IsNull(c.weight_comparison_treemap_weight_type) THEN "kilo_neto"
                       ELSE Val(c.weight_comparison_treemap_weight_type)
        df_filtered == trim(groupby_sum(filtered_df.rows), weight_type)
        df_sorted == sort_values(df_filtered, weight_type, FALSE)
    IN  IF filtered_df.status # "ok" THEN ChartRaised(filtered_df.exc)
        ELSE IF Len(filtered_df.rows) = 0 THEN Drawn(empty_fig("", "No data available"))
        ELSE IF Len(df_filtered) = 0
        THEN Drawn(empty_fig("", "No significant data to display"))
        ELSE Drawn(Figure("treemap", "", "",
                          [k \in Positions(df_sorted) |->
                              [ADUANA |-> df_sorted[k].ADUANA,
                               weight |-> df_sorted[k][weight_type],
                               total |-> df_sorted[k].total,
                               mercaderias_distintas |->
                                   df_sorted[k].mercaderias_distintas]]))

----------------------------------------------------------------------------
(* Port performance radar *)

\* The options of the port selector:
\* df.groupby('ADUANA')['total'].sum().nlargest(10).index.tolist()
top_ports(rows) ==
    LET port_totals == head(sort_values(groupby_total(rows), "total", FALSE), 10)
    IN  [k \in Positions(port_totals) |-> Val(port_totals[k].ADUANA)]

metrics == <<"total", "kilo_neto", "mercaderias_distintas", "weight_efficiency", "value_per_kg">>

\* port_metrics: the sums of each selected office and the two ratios
port_metrics(rows) ==
    LET sums == groupby_sum(rows)
    IN  [k \in Positions(sums) |->
            [ADUANA |-> Val(sums[k].ADUANA),
             total |-> to_float(sums[k].total),
             kilo_neto |-> to_float(sums[k].kilo_neto),
             mercaderias_distintas |-> to_float(sums[k].mercaderias_distintas),
             weight_efficiency |-> divide(to_float(sums[k].kilo_neto),
                                          to_float(sums[k].kilo_bruto)),
             value_per_kg |-> divide(to_float(sums[k].total),
                                     to_float(sums[k].kilo_neto))]]

\* The normalization that gives 0.0 to a metric without spread
normalized_to_zero(xs) ==
    LET max_val == series_max(xs)
        min_val == series_min(xs)
    IN  [k \in DOMAIN xs |->
            IF float_ne(max_val, min_val)
            THEN divide(subtract(xs[k], min_val), subtract(max_val, min_val))
            ELSE Num(0, 1)]

\* The column f'{metric}_norm' of one metric's column xs
normalized(xs) ==
    LET max_val == series_max(xs)
        min_val == series_min(xs)
    IN  [k \in DOMAIN xs |->
            IF float_ne(max_val, min_val)
            THEN divide(subtract(xs[k], min_val), subtract(max_val, min_val))
            ELSE Num(1, 1)]

radar_values_open(pm, k, normalize) ==
    [m \in 1..Len(metrics) |->
        IF normalize
        THEN normalized([j \in Positions(pm) |-> pm[j][metrics[m]]])[k]
        ELSE pm[k][metrics[m]]]

\* The values plotted for row k of port_metrics, the first one repeated at
\* the end to close the polygon
radar_values(pm, k, normalize) ==
    LET values == [m \in 1..Len(metrics) |->
                      IF normalize
                      THEN normalized([j \in Positions(pm) |-> pm[j][metrics[m]]])[k]
                      ELSE pm[k][metrics[m]]]
    IN  Append(values, values[1])

\* The traces: one per selected port that has a row in port_metrics, in
\* the order of selected_ports
RECURSIVE radar_traces(_, _, _)
radar_traces(pm, selected_ports, normalize) ==
    IF selected_ports = <<>> THEN <<>>
    ELSE LET port == Head(selected_ports)
             at == {k \in Positions(pm) : pm[k].ADUANA = port}
             rest == radar_traces(pm, Tail(selected_ports), normalize)
         IN  IF at = {} THEN rest
             ELSE <<[name |-> port,
                     r |-> radar_values(pm, CHOOSE k \in at : TRUE, normalize),
                     theta |-> <<"Total Value", "Net Weight (kg)", "Merchandise Types",
                                 "Weight Efficiency", "Value per kg", "Total Value">>]>>
                  \o rest

\* _update_logic of port_performance_radar
port_performance_radar_update_logic(t, f, c) ==
    LET filtered_df == filter_data(t, f)
        selected_ports == c.port_performance_radar_ports
        normalize == "enabled" \in c.port_performance_radar_normalize
        df_filtered == SelectSeq(filtered_df.rows, LAMBDA r :
                           \E k \in Positions(selected_ports) :
                               r.ADUANA = Some(selected_ports[k]))
    IN  IF filtered_df.status # "ok" THEN ChartRaised(filtered_df.exc)
        ELSE IF Len(filtered_df.rows) = 0 THEN Drawn(NoDataFigure)
        ELSE IF selected_ports = <<>>
        THEN Drawn(empty_fig("No ports selected",
                             "Please select at least one port to display"))
        ELSE IF Len(df_filtered) = 0
        THEN Drawn(empty_fig("No data for selected ports",
                             "No data available for the selected ports"))
        ELSE Drawn(Figure("scatterpolar", "", "",
                          radar_traces(port_metrics(df_filtered), selected_ports, normalize)))

----------------------------------------------------------------------------
(* Component registry and layout *)

\* The chart components in the order of their imports and of the layout
ChartNames ==
    <<"port_ranking_value", "volume_vs_value_scatter", "merchandise_diversity_ranking",
      "weight_comparison_treemap", "port_performance_radar">>

component_unguarded(preview) ==
    LET called(c, m) == IF c = "component" THEN <<m>> ELSE <<>>
        before == called(filter_component, "filter_component")
                      \o called(data_card_component, "data_cards")
        after == called(data_table_component, "data_table")
        registered == SelectSeq(ChartNames, LAMBDA n : n \in DOMAIN component_registry)
        item(n) == [kind |-> "layout", name |-> n, title |-> <<>>,
                    width |-> 0, edit |-> FALSE]
        chart(n) == [kind |-> "layout", name |-> n, title |-> <<>>,
                     width |-> 50, edit |-> preview]
        all == before \o registered \o after
    IN  IF \E k \in DOMAIN all : modules[all[k]] = "component raises"
        THEN [status |-> "raised", items |-> <<>>]
        ELSE [status |-> "returned",
              items |-> <<[kind |-> "hero", name |-> "", title |-> <<>>,
                           width |-> 0, edit |-> FALSE]>>
                        \o [k \in DOMAIN before |-> item(before[k])]
                        \o [k \in DOMAIN registered |-> chart(registered[k])]
                        \o [k \in DOMAIN after |-> item(after[k])]]

\* component(preview): the hero, the filter and the cards when imported,
\* every registered chart in the fixed order, the table when imported.
\* A chart's constructor is called inside try/except Exception and a card
\* titled f'Error in <name>: {e}' stands in for a chart that raised; the
\* width and, with preview, the Edit button are set on either; the
\* constructors of the filter, the cards and the table are called bare
component(preview) ==
    LET called(c, m) == IF c = "component" THEN <<m>> ELSE <<>>
        before == called(filter_component, "filter_component")
                      \o called(data_card_component, "data_cards")
        after == called(data_table_component, "data_table")
        registered == SelectSeq(ChartNames, LAMBDA n : n \in DOMAIN component_registry)
        item(n) == [kind |-> "layout", name |-> n, title |-> <<>>,
                    width |-> 0, edit |-> FALSE]
        chart(n) == IF modules[n] = "component raises"
                    THEN [kind |-> "error card", name |-> "",
                          title |-> <<"Error in ", n, ": ", "Exception">>,
                          width |-> 50, edit |-> preview]
                    ELSE [kind |-> "layout", name |-> n, title |-> <<>>,
                          width |-> 50, edit |-> preview]
    IN  IF \E k \in DOMAIN (before \o after) : modules[(before \o after)[k]] = "component raises"
        THEN [status |-> "raised", items |-> <<>>]
        ELSE [status |-> "returned",
              items |-> <<[kind |-> "hero", name |-> "", title |-> <<>>,
                           width |-> 0, edit |-> FALSE]>>
                        \o [k \in DOMAIN before |-> item(before[k])]
                        \o [k \in DOMAIN registered |-> chart(registered[k])]
                        \o [k \in DOMAIN after |-> item(after[k])]]

----------------------------------------------------------------------------
(* Component controls and inputs *)

\* The values the components' own controls hold when the layout is built
\* from the loaded table (size_factor in tenths)
DefaultControls(rows) ==
    LET counts == ColumnValues(rows, "mercaderias_distintas")
    IN  [port_ranking_value_top_n |-> Some(10),
         port_ranking_value_sort_order |-> Some("desc"),
         volume_vs_value_scatter_weight_type |-> Some("kilo_neto"),
         volume_vs_value_scatter_size_factor |-> Some(10),
         merchandise_diversity_ranking_sort_metric |-> Some("mercaderias_distintas"),
         merchandise_diversity_ranking_min_merchandise |->
             IF counts = {} THEN Null ELSE Some(SetMin(counts)),
         merchandise_diversity_ranking_max_merchandise |->
             IF counts = {} THEN Null ELSE Some(SetMax(counts)),
         weight_comparison_treemap_weight_type |-> Some("kilo_neto"),
         port_performance_radar_ports |-> head(top_ports(rows), 3),
         port_performance_radar_normalize |-> {"enabled"}]

\* The dropdowns of port_ranking_value: an option, or None when cleared
RankingControls(rows) ==
    {[DefaultControls(rows) EXCEPT !.port_ranking_value_top_n = n,
                                   !.port_ranking_value_sort_order = o] :
        n \in {Null, Some(5), Some(10), Some(15), Some(20)},
        o \in {Null, Some("desc"), Some("asc")}}

\* The dropdown of weight_comparison_treemap
TreemapControls(rows) ==
    {[DefaultControls(rows) EXCEPT !.weight_comparison_treemap_weight_type = w] :
        w \in {Null, Some("kilo_neto"), Some("kilo_bruto")}}

\* The port selector and the checklist of port_performance_radar: any of
\* the offered ports, in the order offered (none when cleared)
RadarControls(rows) ==
    {[DefaultControls(rows) EXCEPT !.port_performance_radar_ports = p,
                                   !.port_performance_radar_normalize = n] :
        p \in Excerpts(top_ports(rows), Len(top_ports(rows))),
        n \in {{}, {"enabled"}}}

\* Filter values of an interaction: the initial ones, or one office selected
ViewFilters(rows) ==
    {DefaultFilters(rows)} \cup
    {[DefaultFilters(rows) EXCEPT !.port_selection = {o}] : o \in unique_ports(rows)}

\* The same, or the two inputs of the total-value range edited
CallbackFilters(rows) ==
    ViewFilters(rows) \cup
    {[DefaultFilters(rows) EXCEPT !.total_value_min = r[1], !.total_value_max = r[2]] :
        r \in RangeOptions(rows, "total")}

\* Component inputs: three offices with one or two rows each, sums that
\* tie and sums that differ per column, weights of zero
ViewRows ==
    {Row(Some(N_CDE), Some(2), Some(1), Some(1), Some(1)),
     Row(Some(N_CDE), Some(1), Some(2), Some(2), Some(2)),
     Row(Some(N_ENC), Some(2), Some(1), Some(0), Some(1)),
     Row(Some(N_ENC), Some(1), Some(0), Some(0), Some(2)),
     Row(Some(N_ZA), Some(3), Some(2), Some(2), Some(1)),
     Row(Some(N_ZA), Some(1), Some(1), Some(1), Some(1))}

ViewFiles == {File(rows) : rows \in SeqsUpTo(ViewRows, MaxViewRows)}

\* Tables as long as the data table's row cap, and longer by one row of
\* the same or of another office
LongFiles ==
    {File([i \in 1..TableRowCap |-> Row(Some(N_CDE), Some(1), Some(1), Some(1), Some(1))]
              \o last) :
        last \in {<<>>,
                  <<Row(Some(N_CDE), Some(1), Some(1), Some(1), Some(1))>>,
                  <<Row(Some(N_ENC), Some(1), Some(1), Some(1), Some(1))>>}}

\* Inputs of the bar ranking: more offices than the smallest top_n, one row
\* each and a second row for the first office
RankingFiles ==
    LET ports == <<N_CDE, N_ENC, N_ZA, N_PTOZA, N_AEROPTO, <<"P", "J", "C">>,
                   <<"C", "a", "p">>, <<"I", "T", "A">>>>
    IN  {File([i \in 1..Len(totals) |->
                  Row(Some(ports[i]), Some(totals[i]), Some(1), Some(1), Some(1))]
              \o more) :
            totals \in SeqsUpTo({1, 2}, MaxRankedPorts),
            more \in {<<>>, <<Row(Some(N_CDE), Some(1), Some(1), Some(1), Some(1))>>}}

----------------------------------------------------------------------------
(* Component callbacks *)

\* No component callback has run
ComponentsIdle ==
    /\ controls = DefaultControls(<<>>)
    /\ data_cards = CardsNotRun
    /\ data_table = DataTableNotRun
    /\ port_ranking_value = ChartNotRun
    /\ volume_vs_value_scatter = ChartNotRun
    /\ merchandise_diversity_ranking = ChartNotRun
    /\ weight_comparison_treemap = ChartNotRun
    /\ port_performance_radar = ChartNotRun
    /\ modules = [m \in {"filter_component", "data_cards", "data_table"}
                         \cup {ChartNames[k] : k \in DOMAIN ChartNames} |-> "ok"]
    /\ filter_component = "component"
    /\ data_card_component = "component"
    /\ data_table_component = "component"
    /\ component_registry = [n \in {ChartNames[k] : k \in DOMAIN ChartNames} |-> "component"]
    /\ failed_components = <<>>
    /\ layout_items = component(FALSE)

\* The state when a filter change is about to fire the callbacks: the
\* table loaded from one of the files, filter values an interaction
\* delivers, no output yet
InitComponents(files) ==
    /\ file \in files
    /\ df = get_data(file)
    /\ filtered = NotRun
    /\ refiltered = NotRun
    /\ total_results = CountNotRun
    /\ port_name = <<>>
    /\ port_type = ""
    /\ option_type = ""
    /\ data_cards = CardsNotRun
    /\ data_table = DataTableNotRun
    /\ port_ranking_value = ChartNotRun
    /\ volume_vs_value_scatter = ChartNotRun
    /\ merchandise_diversity_ranking = ChartNotRun
    /\ weight_comparison_treemap = ChartNotRun
    /\ port_performance_radar = ChartNotRun
    /\ modules = [m \in {"filter_component", "data_cards", "data_table"}
                         \cup {ChartNames[k] : k \in DOMAIN ChartNames} |-> "ok"]
    /\ filter_component = "component"
    /\ data_card_component = "component"
    /\ data_table_component = "component"
    /\ component_registry = [n \in {ChartNames[k] : k \in DOMAIN ChartNames} |-> "component"]
    /\ failed_components = <<>>
    /\ layout_items = component(FALSE)

\* display_count(**kwargs) for the filter values of the interaction: no
\* try/except, an exception of filter_data escapes
DisplayCountOnChange ==
    /\ total_results.status = "none"
    /\ LET count == Len(df.rows)
           filtered_df == filter_data(df, filters)
       IN  /\ filtered' = filtered_df
           /\ total_results' = IF filtered_df.status = "ok"
                               THEN CountText(Len(filtered_df.rows), count)
                               ELSE CountRaised
    /\ df' = filter_data_argument(df, filters)
    /\ UNCHANGED <<file, filters, refiltered, port_name, port_type, option_type>>
    /\ UNCHANGED component_vars

\* update of the data cards, fired once by the filter change
DataCardsUpdate ==
    /\ data_cards.status = "none"
    /\ data_cards' = data_cards_update(df, filters)
    /\ df' = filter_data_argument(df, filters)
    /\ UNCHANGED <<file, filters, filtered, refiltered, total_results,
                   port_name, port_type, option_type, controls>>
    /\ UNCHANGED <<modules, filter_component, data_card_component, data_table_component,
                   component_registry, failed_components, layout_items>>
    /\ UNCHANGED <<data_table, port_ranking_value, volume_vs_value_scatter,
                   merchandise_diversity_ranking, weight_comparison_treemap, port_performance_radar>>

\* update of the data table, fired once by the filter change
DataTableUpdate ==
    /\ data_table.status = "none"
    /\ LET logic == data_table_update_logic(df, filters)
       IN  data_table' =
               IF logic.status = "ok"
               THEN [status |-> "returned", columnDefs |-> logic.columnDefs,
                     rowData |-> logic.rowData,
                     title |-> [text |-> "Showing ports ranked by import operations",
                                ports |-> Some(Len(logic.rowData))]]
               ELSE [status |-> "returned", columnDefs |-> <<>>, rowData |-> <<>>,
                     title |-> [text |-> "Error loading data", ports |-> Null]]
    /\ df' = filter_data_argument(df, filters)
    /\ UNCHANGED <<file, filters, filtered, refiltered, total_results,
                   port_name, port_type, option_type, controls>>
    /\ UNCHANGED <<modules, filter_component, data_card_component, data_table_component,
                   component_registry, failed_components, layout_items>>
    /\ UNCHANGED <<data_cards, port_ranking_value, volume_vs_value_scatter,
                   merchandise_diversity_ranking, weight_comparison_treemap, port_performance_radar>>

\* update of port_ranking_value, fired once by the filter change
PortRankingValueUpdate ==
    /\ port_ranking_value.status = "none"
    /\ port_ranking_value' = chart_update("Error in chart", port_ranking_value_update_logic(df, filters, controls))
    /\ df' = filter_data_argument(df, filters)
    /\ UNCHANGED <<file, filters, filtered, refiltered, total_results,
                   port_name, port_type, option_type, controls>>
    /\ UNCHANGED <<modules, filter_component, data_card_component, data_table_component,
                   component_registry, failed_components, layout_items>>
    /\ UNCHANGED <<data_cards, data_table, volume_vs_value_scatter,
                   merchandise_diversity_ranking, weight_comparison_treemap, port_performance_radar>>

\* update of volume_vs_value_scatter, fired once by the filter change
VolumeVsValueScatterUpdate ==
    /\ volume_vs_value_scatter.status = "none"
    /\ volume_vs_value_scatter' = chart_update("Error in chart", volume_vs_value_scatter_update_logic(df, filters, controls))
    /\ df' = filter_data_argument(df, filters)
    /\ UNCHANGED <<file, filters, filtered, refiltered, total_results,
                   port_name, port_type, option_type, controls>>
    /\ UNCHANGED <<modules, filter_component, data_card_component, data_table_component,
                   component_registry, failed_components, layout_items>>
    /\ UNCHANGED <<data_cards, data_table, port_ranking_value,
                   merchandise_diversity_ranking, weight_comparison_treemap, port_performance_radar>>

\* update of merchandise_diversity_ranking, fired once by the filter change
MerchandiseDiversityRankingUpdate ==
    /\ merchandise_diversity_ranking.status = "none"
    /\ merchandise_diversity_ranking' = chart_update("Error in chart", merchandise_diversity_ranking_update_logic(df, filters, controls))
    /\ df' = filter_data_argument(df, filters)
    /\ UNCHANGED <<file, filters, filtered, refiltered, total_results,
                   port_name, port_type, option_type, controls>>
    /\ UNCHANGED <<modules, filter_component, data_card_component, data_table_component,
                   component_registry, failed_components, layout_items>>
    /\ UNCHANGED <<data_cards, data_table, port_ranking_value,
                   volume_vs_value_scatter, weight_comparison_treemap, port_performance_radar>>

\* update of weight_comparison_treemap, fired once by the filter change
WeightComparisonTreemapUpdate ==
    /\ weight_comparison_treemap.status = "none"
    /\ weight_comparison_treemap' = chart_update("", weight_comparison_treemap_update_logic(df, filters, controls))
    /\ df' = filter_data_argument(df, filters)
    /\ UNCHANGED <<file, filters, filtered, refiltered, total_results,
                   port_name, port_type, option_type, controls>>
    /\ UNCHANGED <<modules, filter_component, data_card_component, data_table_component,
                   component_registry, failed_components, layout_items>>
    /\ UNCHANGED <<data_cards, data_table, port_ranking_value,
                   volume_vs_value_scatter, merchandise_diversity_ranking, port_performance_radar>>

\* update of port_performance_radar, fired once by the filter change
PortPerformanceRadarUpdate ==
    /\ port_performance_radar.status = "none"
    /\ port_performance_radar' = chart_update("Error in chart", port_performance_radar_update_logic(df, filters, controls))
    /\ df' = filter_data_argument(df, filters)
    /\ UNCHANGED <<file, filters, filtered, refiltered, total_results,
                   port_name, port_type, option_type, controls>>
    /\ UNCHANGED <<modules, filter_component, data_card_component, data_table_component,
                   component_registry, failed_components, layout_items>>
    /\ UNCHANGED <<data_cards, data_table, port_ranking_value,
                   volume_vs_value_scatter, merchandise_diversity_ranking, weight_comparison_treemap>>

\* Every callback that takes the filter parameters, in any order, on the
\* tables of the filter inputs
InitCallbacks ==
    /\ InitComponents({File(rows) : rows \in Excerpts(SampleRows, MaxRows)})
    /\ filters \in CallbackFilters(df.rows)
    /\ controls = DefaultControls(df.rows)

NextCallbacks ==
    \/ DisplayCountOnChange
    \/ DataCardsUpdate
    \/ DataTableUpdate
    \/ PortRankingValueUpdate
    \/ VolumeVsValueScatterUpdate
    \/ MerchandiseDiversityRankingUpdate
    \/ WeightComparisonTreemapUpdate
    \/ PortPerformanceRadarUpdate

SpecCallbacks == InitCallbacks /\ [][NextCallbacks]_vars

\* The data table alone
InitTable ==
    /\ InitComponents(ViewFiles \cup LongFiles)
    /\ filters \in ViewFilters(df.rows)
    /\ controls = DefaultControls(df.rows)

NextTable == DataTableUpdate

SpecTable == InitTable /\ [][NextTable]_vars

\* The bar ranking alone
InitRanking ==
    /\ InitComponents(RankingFiles)
    /\ filters = DefaultFilters(df.rows)
    /\ controls \in RankingControls(df.rows)

NextRanking == PortRankingValueUpdate

SpecRanking == InitRanking /\ [][NextRanking]_vars

\* The treemap alone
InitTreemap ==
    /\ InitComponents(ViewFiles)
    /\ filters \in ViewFilters(df.rows)
    /\ controls \in TreemapControls(df.rows)

NextTreemap == WeightComparisonTreemapUpdate

SpecTreemap == InitTreemap /\ [][NextTreemap]_vars

\* The radar alone
InitRadar ==
    /\ InitComponents(ViewFiles)
    /\ filters \in ViewFilters(df.rows) \cup
                   {[DefaultFilters(df.rows) EXCEPT !.port_selection = {o, q}] :
                       o, q \in unique_ports(df.rows)}
    /\ controls \in RadarControls(df.rows)

NextRadar == PortPerformanceRadarUpdate

SpecRadar == InitRadar /\ [][NextRadar]_vars

\* The scatter alone: rows of up to three distinct merchandise counts, a
\* row without net weight, the slider between 0.1 and 2.0 in tenths and the
\* weight dropdown (None when cleared)
InitScatter ==
    /\ InitComponents({File(rows) : rows \in SeqsUpTo(
           {Row(Some(N_CDE), Some(1), Some(1), Some(1), Some(1)),
            Row(Some(N_ENC), Some(2), Some(2), Some(2), Some(2)),
            Row(Some(N_ZA), Some(3), Some(1), Some(2), Some(4)),
            Row(Some(N_CDE), Some(2), Some(2), Some(1), Some(2)),
            Row(Some(N_ZA), Some(1), Null, Some(1), Some(1))}, MaxViewRows)})
    /\ filters \in ViewFilters(df.rows)
    /\ controls \in {[DefaultControls(df.rows) EXCEPT
                         !.volume_vs_value_scatter_weight_type = w,
                         !.volume_vs_value_scatter_size_factor = s] :
                        w \in {Null, Some("kilo_neto"), Some("kilo_bruto")},
                        s \in {Null, Some(1), Some(5), Some(11), Some(20)}}

NextScatter == VolumeVsValueScatterUpdate

SpecScatter == InitScatter /\ [][NextScatter]_vars

\* The start of the application: nothing imported, any of the component
\* modules failing on import or in its constructor
InitLayout ==
    /\ file = File(<<>>)
    /\ df = NotRun
    /\ filters = DefaultFilters(<<>>)
    /\ filtered = NotRun
    /\ refiltered = NotRun
    /\ total_results = CountNotRun
    /\ port_name = <<>>
    /\ port_type = ""
    /\ option_type = ""
    /\ controls = DefaultControls(<<>>)
    /\ data_cards = CardsNotRun
    /\ data_table = DataTableNotRun
    /\ port_ranking_value = ChartNotRun
    /\ volume_vs_value_scatter = ChartNotRun
    /\ merchandise_diversity_ranking = ChartNotRun
    /\ weight_comparison_treemap = ChartNotRun
    /\ port_performance_radar = ChartNotRun
    /\ modules \in [{"filter_component", "data_cards", "data_table"}
                        \cup {ChartNames[k] : k \in DOMAIN ChartNames} ->
                    {"ok", "import raises", "component raises"}]
    /\ filter_component = "unbound"
    /\ data_card_component = "unbound"
    /\ data_table_component = "unbound"
    /\ component_registry = <<>>
    /\ failed_components = <<>>
    /\ layout_items = [status |-> "none", items |-> <<>>]

\* The component imports at module level, each in its own try/except
\* Exception: a failed import leaves None for the filter, the cards and the
\* table, and the message in failed_components for a chart
Imports ==
    /\ filter_component = "unbound"
    /\ LET imported(m) == IF modules[m] = "import raises" THEN "None" ELSE "component"
           charts == {ChartNames[k] : k \in DOMAIN ChartNames}
       IN  /\ filter_component' = imported("filter_component")
           /\ data_card_component' = imported("data_cards")
           /\ data_table_component' = imported("data_table")
           /\ component_registry' =
                  [n \in {m \in charts : modules[m] # "import raises"} |-> "component"]
           /\ failed_components' =
                  [n \in {m \in charts : modules[m] = "import raises"} |-> "ImportError"]
    /\ UNCHANGED <<file, df, filters, filtered, refiltered, total_results,
                   port_name, port_type, option_type, controls, modules, layout_items>>
    /\ UNCHANGED <<data_cards, data_table, port_ranking_value, volume_vs_value_scatter,
                   merchandise_diversity_ranking, weight_comparison_treemap,
                   port_performance_radar>>

\* component(preview) called once the module is imported
Component ==
    /\ filter_component # "unbound"
    /\ layout_items.status = "none"
    /\ \E preview \in BOOLEAN : layout_items' = component(preview)
    /\ UNCHANGED <<file, df, filters, filtered, refiltered, total_results,
                   port_name, port_type, option_type, controls, modules>>
    /\ UNCHANGED <<filter_component, data_card_component, data_table_component,
                   component_registry, failed_components>>
    /\ UNCHANGED <<data_cards, data_table, port_ranking_value, volume_vs_value_scatter,
                   merchandise_diversity_ranking, weight_comparison_treemap,
                   port_performance_radar>>

NextLayout == Imports \/ Component

SpecLayout == InitLayout /\ [][NextLayout]_vars

----------------------------------------------------------------------------
(* Loader: get_data behind cache.memoize (a raised call is not cached) *)

InitLoad ==
    /\ file \in LoadFiles
    /\ df = NotRun
    /\ filters = DefaultFilters(<<>>)
    /\ filtered = NotRun
    /\ refiltered = NotRun
    /\ total_results = CountNotRun
    /\ port_name = <<>>
    /\ port_type = ""
    /\ option_type = ""
    /\ ComponentsIdle

GetData ==
    /\ df' = IF df.status = "ok" THEN df ELSE get_data(file)
    /\ UNCHANGED <<file, filters, filtered, refiltered, total_results,
                   port_name, port_type, option_type>>
    /\ UNCHANGED component_vars

NextLoad == GetData

SpecLoad == InitLoad /\ [][NextLoad]_vars

----------------------------------------------------------------------------
(* Classifier *)

InitClassify ==
    /\ port_name \in PortNames
    /\ port_type = ""
    /\ option_type = ""
    /\ file = File(<<>>)
    /\ df = NotRun
    /\ filters = DefaultFilters(<<>>)
    /\ filtered = NotRun
    /\ refiltered = NotRun
    /\ total_results = CountNotRun
    /\ ComponentsIdle

\* df["ADUANA"].apply(classify_port_type) on one name, in filter_data
FilterClassify ==
    /\ port_type' = classify_port_type(port_name)
    /\ UNCHANGED <<file, df, filters, filtered, refiltered, total_results,
                   port_name, option_type>>
    /\ UNCHANGED component_vars

\* classify_port_type(port) for port in unique_ports, in the filter component
ComponentClassify ==
    /\ option_type' = component_classify_port_type(port_name)
    /\ UNCHANGED <<file, df, filters, filtered, refiltered, total_results,
                   port_name, port_type>>
    /\ UNCHANGED component_vars

NextClassify == FilterClassify \/ ComponentClassify

SpecClassify == InitClassify /\ [][NextClassify]_vars

----------------------------------------------------------------------------
(* Filter callbacks on the loaded table *)

Init ==
    /\ file \in FilterFiles
    /\ df = get_data(file)
    /\ filters = DefaultFilters(df.rows)
    /\ filtered = NotRun
    /\ refiltered = NotRun
    /\ total_results = CountNotRun
    /\ port_name = <<>>
    /\ port_type = ""
    /\ option_type = ""
    /\ ComponentsIdle

\* display_count(**kwargs), the callback of one filter change, with the
\* values FILTER_CALLBACK_INPUTS delivers for the controls built from the
\* loaded table, one range control edited: no try/except, an exception of
\* filter_data escapes
DisplayCount ==
    /\ total_results.status = "none"
    /\ \E sel \in Selections(Str_all, unique_ports(df.rows)),
          top \in TopOptions,
          types \in Selections("all", port_types(df.rows)),
          c \in NumericColumns :
        \E r \in RangeOptions(df.rows, c) :
        LET ranges == RangesWith(df.rows, c, r)
            kwargs == MakeFilters(sel, top, types, ranges["total"], ranges["kilo_neto"],
                                  ranges["kilo_bruto"], ranges["mercaderias_distintas"])
            count == Len(df.rows)
            filtered_df == filter_data(df, kwargs)
        IN  /\ filters' = kwargs
            /\ filtered' = filtered_df
            /\ total_results' = IF filtered_df.status = "ok"
                                THEN CountText(Len(filtered_df.rows), count)
                                ELSE CountRaised
            /\ refiltered' = NotRun
            /\ df' = filter_data_argument(df, kwargs)
            /\ UNCHANGED <<file, port_name, port_type, option_type>>
            /\ UNCHANGED component_vars

\* filter_data applied to its own output with the same parameters
FilterAgain ==
    /\ filtered.status = "ok"
    /\ refiltered.status = "none"
    /\ refiltered' = filter_data(filtered, filters)
    /\ filtered' = filter_data_argument(filtered, filters)
    /\ UNCHANGED <<file, df, filters, total_results,
                   port_name, port_type, option_type>>
    /\ UNCHANGED component_vars

Next == DisplayCount \/ FilterAgain

Spec == Init /\ [][Next]_vars

----------------------------------------------------------------------------
(* Properties of the loader (SpecLoad) *)

HasValue(r) == \E c \in DataColumns : ~IsNull(r[c])

SameData(r, q) == \A c \in DataColumns : r[c] = q[c]

\* C8: after get_data the table holds exactly the parsed rows that have at
\* least one non-null field, unchanged and in their original order: no row
\* null in every column is present and no other row is dropped.
C8_KeepsExactlyNonEmptyRows ==
    df.status = "ok" =>
        /\ \A i \in Positions(df.rows) : HasValue(df.rows[i])
        /\ \A i \in Positions(df.rows) :
              /\ df.rows[i].index + 1 \in Positions(file.rows)
              /\ SameData(df.rows[i], file.rows[df.rows[i].index + 1])
        /\ \A i, j \in Positions(df.rows) :
              i < j => df.rows[i].index < df.rows[j].index
        /\ \A k \in Positions(file.rows) :
              HasValue(file.rows[k]) =>
                  \E i \in Positions(df.rows) : df.rows[i].index = k - 1

\* a file with a fully-null row before a partly-null row has been loaded
C8_Witness ==
    /\ df.status = "ok"
    /\ Len(file.rows) = 2
    /\ ~HasValue(file.rows[1])
    /\ HasValue(file.rows[2]) /\ \E c \in DataColumns : IsNull(file.rows[2][c])
    /\ Len(df.rows) = 1

\* C9: every row of the table returned by get_data has a non-null office
\* name, also when the source row has a null office name and a non-null
\* numeric field.
C9_OfficeNeverNull ==
    df.status = "ok" => \A i \in Positions(df.rows) : ~IsNull(df.rows[i].ADUANA)

\* C10: when the data file is absent, get_data does not raise and returns an
\* empty table with the five expected columns.
C10_AbsentFileGivesEmptyTable ==
    (~file.exists /\ df.status # "none") =>
        (df.status = "ok" /\ df.rows = <<>> /\ df.columns = DataColumns)

----------------------------------------------------------------------------
(* Properties of the classifier (SpecClassify) *)

\* kw occurs in s when letter case is ignored
OccursIgnoringCase(s, kw) ==
    \E i \in 0..(Len(s) - Len(kw)) :
        \A k \in 1..Len(kw) : lower_char(s[i + k]) = lower_char(kw[k])

NamesAirport == OccursIgnoringCase(port_name, kw_aerop) \/ OccursIgnoringCase(port_name, kw_airport)

NamesSeaport ==
    \/ OccursIgnoringCase(port_name, kw_pto)
    \/ OccursIgnoringCase(port_name, kw_puerto)
    \/ OccursIgnoringCase(port_name, kw_port)

NamesFreeZone ==
    \/ OccursIgnoringCase(port_name, kw_za)
    \/ OccursIgnoringCase(port_name, kw_zona)
    \/ OccursIgnoringCase(port_name, kw_frca)

ExpectedType ==
    IF NamesAirport THEN "Airport"
    ELSE IF NamesSeaport THEN "Seaport"
    ELSE IF NamesFreeZone THEN "Free Zone"
    ELSE "Land Border"

\* C7: classify_port_type gives every name exactly one of the four types by
\* first-match precedence, ignoring case: airport keywords, then seaport
\* keywords, then free-zone keywords, else Land Border; the copy of the
\* filter component and the copy inside filter_data agree on every name.
C7_ClassifierPrecedence ==
    /\ port_type # "" => port_type = ExpectedType
    /\ option_type # "" => option_type = ExpectedType
    /\ (port_type # "" /\ option_type # "") => port_type = option_type

\* both copies have classified an upper-case airport name that also holds a
\* seaport keyword, or a seaport name that also holds a free-zone keyword
C7_Witness ==
    /\ port_type # "" /\ option_type # ""
    /\ \/ (NamesAirport /\ NamesSeaport /\ port_type = "Airport"
            /\ lower(port_name) # port_name)
       \/ (~NamesAirport /\ NamesSeaport /\ NamesFreeZone /\ port_type = "Seaport")

----------------------------------------------------------------------------
(* Properties of the filter engine (Spec) *)

Ran == filtered.status = "ok"

Out == filtered.rows

\* the row of the loaded table with the same index label
Source(r) == CHOOSE q \in {df.rows[j] : j \in Positions(df.rows)} : q.index = r.index

\* C1: filter_data returns only rows of its input: each output row is an
\* input row with the same values in the five data fields, no row appears
\* more often than in the input, and the filtered count shown by
\* display_count never exceeds the total count.
C1_OutputIsSubset ==
    Ran =>
        /\ \A i \in Positions(Out) :
              \E j \in Positions(df.rows) :
                  df.rows[j].index = Out[i].index /\ SameData(df.rows[j], Out[i])
        /\ \A i, k \in Positions(Out) : i # k => Out[i].index # Out[k].index
        /\ total_results.status = "ok"
        /\ total_results.filtered_count = Len(Out)
        /\ total_results.count = Len(df.rows)
        /\ total_results.filtered_count <= total_results.count

\* a port-type selection kept some rows, with the added column, and dropped others
C1_Witness ==
    /\ Ran
    /\ "port_type" \in filtered.columns
    /\ Len(Out) > 0
    /\ Len(Out) < Len(df.rows)

\* C2: filter_data(filter_data(t, p), p) has exactly the rows of
\* filter_data(t, p), for every table and every parameter tuple.
C2_Idempotent ==
    refiltered.status # "none" =>
        (refiltered.status = "ok" /\ refiltered.rows = filtered.rows)

SelectionOn == filters.port_selection # {} /\ Str_all \notin filters.port_selection

InSelection(r) == ~IsNull(r.ADUANA) /\ Val(r.ADUANA) \in filters.port_selection

\* C3 as stated: for every selected-office set that is not the "all"
\* sentinel, the empty set included, every returned row has its office name
\* in the set.
C3_AnySelectionRestricts ==
    (Ran /\ filters.port_selection # {Str_all}) =>
        \A i \in Positions(Out) : ~IsNull(Out[i].ADUANA) => InSelection(Out[i])

\* C3 amended: for every selected-office set that is non-empty and does not
\* contain "all", every returned row has its office name in the set.
C3_SelectionRestricts ==
    (Ran /\ SelectionOn) => \A i \in Positions(Out) : InSelection(Out[i])

\* an office was selected, its row returned and another office's row dropped
C3_Witness ==
    /\ Ran /\ SelectionOn
    /\ Len(Out) > 0
    /\ \E j \in Positions(df.rows) : ~InSelection(df.rows[j])

RECURSIVE SumTotal(_, _)
\* sum of total over the rows of office o (a null total adds nothing)
SumTotal(rows, o) ==
    IF rows = <<>> THEN 0
    ELSE (IF Head(rows).ADUANA = o /\ ~IsNull(Head(rows).total)
          THEN Val(Head(rows).total) ELSE 0) + SumTotal(Tail(rows), o)

Offices(rows) == {rows[i].ADUANA : i \in Positions(rows)} \ {Null}

\* C4: with a top-N cutoff N (at most the number of distinct offices), the
\* rows kept come only from the N offices whose total summed per office is
\* greatest among the rows left by the office-membership filter, also when
\* an office has several rows.
C4_TopNBySummedTotal ==
    LET s1 == select_ports(df.rows, filters)
        n == filters.top_ports_filter.n
    IN  (Ran /\ filters.top_ports_filter.kind = "int" /\ n <= Cardinality(Offices(s1))) =>
            \A i \in Positions(Out) :
                ~IsNull(Out[i].ADUANA) =>
                    Cardinality({o \in Offices(s1) :
                        SumTotal(s1, o) > SumTotal(s1, Out[i].ADUANA)}) < n

Within(x, lo, hi) == ~IsNull(x) /\ lo <= 2 * Val(x) /\ 2 * Val(x) <= hi

\* the number of half units of int(b)
Truncated(h) == 2 * int_trunc(h)

Inverted(lo, hi) == Val(lo) > Val(hi)

\* C5 as stated: every returned row has each of total, net weight, gross
\* weight and merchandise count between its min and max parameter, bounds
\* included.
C5_RowsWithinGivenBounds ==
    Ran =>
        \A i \in Positions(Out) :
            /\ Within(Out[i].total, Val(filters.total_value_min), Val(filters.total_value_max))
            /\ Within(Out[i].kilo_neto, Val(filters.net_weight_min), Val(filters.net_weight_max))
            /\ Within(Out[i].kilo_bruto, Val(filters.gross_weight_min), Val(filters.gross_weight_max))
            /\ Within(Out[i].mercaderias_distintas, Val(filters.merchandise_count_min),
                      Val(filters.merchandise_count_max))

InAllRanges(r) ==
    /\ Within(r.total, Val(filters.total_value_min), Val(filters.total_value_max))
    /\ Within(r.kilo_neto, Val(filters.net_weight_min), Val(filters.net_weight_max))
    /\ Within(r.kilo_bruto, Val(filters.gross_weight_min), Val(filters.gross_weight_max))
    /\ Within(r.mercaderias_distintas, Truncated(Val(filters.merchandise_count_min)),
              Truncated(Val(filters.merchandise_count_max)))

BoundsGiven == \A b \in BoundNames : ~IsNull(filters[b])

\* the rows that reach the range filters
BeforeRanges == select_types(select_top(select_ports(df.rows, filters), filters), filters)

\* C5 amended: every returned row has total, net weight and gross weight
\* between their min and max parameters and merchandise count between the
\* integer truncations of its min and max parameters, bounds included and
\* all four at once; a row that reaches the range filters with every value
\* within these bounds, a bound itself included, is kept; a min greater
\* than its max (after truncation for merchandise count) yields an empty
\* result, and an exception is never due to the numbers given as bounds.
C5_RowsWithinBounds ==
    /\ Ran =>
          /\ \A i \in Positions(Out) : InAllRanges(Out[i])
          /\ LET reached == BeforeRanges
             IN  \A j \in Positions(reached) :
                    InAllRanges(reached[j]) =>
                        \E i \in Positions(Out) : Out[i].index = reached[j].index
          /\ ( \/ Inverted(filters.total_value_min, filters.total_value_max)
               \/ Inverted(filters.net_weight_min, filters.net_weight_max)
               \/ Inverted(filters.gross_weight_min, filters.gross_weight_max)
               \/ Truncated(Val(filters.merchandise_count_min))
                    > Truncated(Val(filters.merchandise_count_max)) )
             => Out = <<>>
    /\ (filtered.status = "raised" /\ BoundsGiven) => filtered.exc = "AttributeError"

\* with a fractional lower bound for merchandise count, a row whose count
\* equals the truncated bound was kept while another row was dropped
C5_Witness ==
    /\ Ran
    /\ Val(filters.merchandise_count_min) % 2 = 1
    /\ \E i \in Positions(Out) :
          2 * Val(Out[i].mercaderias_distintas) = Truncated(Val(filters.merchandise_count_min))
    /\ Len(Out) < Len(BeforeRanges)

TypeOf(r) == classify_port_type(Val(r.ADUANA))

PassOthers == select_ranges(select_top(select_ports(df.rows, filters), filters), filters)

----------------------------------------------------------------------------
(* Properties of the callbacks of one filter change (SpecCallbacks) *)

\* what filter_data gives every callback of the interaction
View == filter_data(df, filters)

ZeroRows == View.status = "ok" /\ Len(View.rows) = 0

Charts ==
    <<port_ranking_value, volume_vs_value_scatter, merchandise_diversity_ranking,
      weight_comparison_treemap, port_performance_radar>>

AllReturned ==
    /\ data_cards.status = "returned"
    /\ data_table.status = "returned"
    /\ \A k \in 1..Len(Charts) : Charts[k].status = "returned"

\* C11: when the filters leave zero rows, every component that has run
\* returned its "no data" output and not its error output: the five cards
\* read "No Data", the table has no columns and no rows under the title
\* "Showing 0 ports ...", and each chart is a figure without traces whose
\* annotation says that no data is available, with an empty error string.
C11_NoDataOutputs ==
    ZeroRows =>
        /\ data_cards.status = "returned" =>
              /\ Len(data_cards.children) = 5
              /\ \A k \in 1..5 : data_cards.children[k].text = "No Data"
        /\ data_table.status = "returned" =>
              /\ data_table.columnDefs = <<>>
              /\ data_table.rowData = <<>>
              /\ data_table.title.text = "Showing ports ranked by import operations"
              /\ data_table.title.ports = Some(0)
        /\ \A k \in 1..Len(Charts) :
              Charts[k].status = "returned" =>
                  /\ Charts[k].error = ""
                  /\ Charts[k].figure.kind = "none"
                  /\ Charts[k].figure.data = <<>>
                  /\ Charts[k].figure.text \in
                        {"No data is available to display", "No data available"}

\* a table with rows was filtered down to none and all seven components
\* have answered
C11_Witness ==
    /\ ZeroRows
    /\ Len(df.rows) > 0
    /\ AllReturned

\* C12: an exception of filter_data (on a table with rows) is caught by
\* every callback that takes the filter parameters: none lets it escape,
\* the row-count display included, and each returns its error output.
C12_ExceptionsCaught ==
    (View.status = "raised" /\ Len(df.rows) > 0) =>
        /\ total_results.status # "raised"
        /\ data_cards.status = "returned" =>
              \A k \in 1..5 : data_cards.children[k].text = "Error"
        /\ data_table.status = "returned" =>
              data_table.title.text = "Error loading data"
        /\ \A k \in 1..Len(Charts) :
              Charts[k].status = "returned" => Charts[k].error # ""

----------------------------------------------------------------------------
(* Properties of the data table (SpecTable) *)

TableRows == data_table.rowData

\* C13: the ranking table has exactly one row per distinct office named in
\* the filtered view, and the four numeric columns of each row are the sums
\* over all filtered rows of that office, whatever the size of the view.
C13_OneRowPerOfficeWithSums ==
    (data_table.status = "returned" /\ View.status = "ok") =>
        LET offices == ColumnValues(View.rows, "ADUANA")
        IN  /\ \A o \in offices :
                  Cardinality({k \in Positions(TableRows) :
                                  TableRows[k].ADUANA = Some(o)}) = 1
            /\ \A k \in Positions(TableRows) :
                  /\ ~IsNull(TableRows[k].ADUANA)
                  /\ Val(TableRows[k].ADUANA) \in offices
                  /\ \A c \in NumericColumns :
                        TableRows[k][c] =
                            Some(group_sum(View.rows, c, Val(TableRows[k].ADUANA)))

\* one more than the number of distinct values of column c greater than row k's
RankAmong(k, c) ==
    1 + Cardinality({v \in {Val(TableRows[j][c]) : j \in Positions(TableRows)} :
                        v > Val(TableRows[k][c])})

RankPairs ==
    {<<"total", "total_rank">>, <<"kilo_neto", "weight_rank">>,
     <<"mercaderias_distintas", "diversity_rank">>}

\* C14: for total, net weight and merchandise count alike, the rank of a
\* row is one more than the number of distinct per-office sums greater than
\* its own: the greatest sum has rank 1, equal sums share a rank, the ranks
\* used have no gap, and each metric is ranked by its own sums only.
C14_DenseRanks ==
    data_table.status = "returned" =>
        \A p \in RankPairs :
            /\ \A k \in Positions(TableRows) :
                  TableRows[k][p[2]] = Some(RankAmong(k, p[1]))
            /\ {Val(TableRows[k][p[2]]) : k \in Positions(TableRows)} =
                  1..Cardinality({Val(TableRows[k][p[1]]) : k \in Positions(TableRows)})

\* three offices, two of them tied for the greatest total and ranked 1, the
\* third ranked 2, while the net-weight ranks differ from the total ranks
C14_Witness ==
    /\ data_table.status = "returned"
    /\ Len(TableRows) = 3
    /\ TableRows[1].total_rank = Some(1)
    /\ TableRows[2].total_rank = Some(1)
    /\ TableRows[3].total_rank = Some(2)
    /\ \E k \in Positions(TableRows) : TableRows[k].weight_rank # TableRows[k].total_rank

----------------------------------------------------------------------------
(* Properties of the radar (SpecRadar) *)

RadarTraces ==
    IF port_performance_radar.figure.kind = "scatterpolar"
    THEN port_performance_radar.figure.data ELSE <<>>

\* C15: the weight_efficiency and value_per_kg of every emitted series are
\* finite numbers: a summed gross or net weight of 0 gives no inf and no
\* NaN, with or without normalization.
C15_RatiosFinite ==
    \A k \in Positions(RadarTraces) :
        /\ RadarTraces[k].r[4].kind = "num"
        /\ RadarTraces[k].r[5].kind = "num"

Normalizing == "enabled" \in controls.port_performance_radar_normalize

\* the selected offices that have rows in the filtered view
PlottedOffices ==
    {o \in ColumnValues(View.rows, "ADUANA") :
        \E k \in Positions(controls.port_performance_radar_ports) :
            controls.port_performance_radar_ports[k] = o}

\* metric m of office o as numerator and denominator of its sums
Fraction(o, m) ==
    LET sum(c) == group_sum(View.rows, c, o)
    IN  CASE m = 1 -> <<sum("total"), 1>>
          [] m = 2 -> <<sum("kilo_neto"), 1>>
          [] m = 3 -> <<sum("mercaderias_distintas"), 1>>
          [] m = 4 -> <<sum("kilo_neto"), sum("kilo_bruto")>>
          [] m = 5 -> <<sum("total"), sum("kilo_neto")>>

\* metric m has a value (is not 0 / 0) for some selected office and the
\* same value, finite or infinite, for all that have one: max == min
Flat(m) ==
    LET valued == {o \in PlottedOffices : Fraction(o, m) # <<0, 0>>}
    IN  /\ valued # {}
        /\ \A o, q \in valued :
              Fraction(o, m)[1] * Fraction(q, m)[2] = Fraction(q, m)[1] * Fraction(o, m)[2]

----------------------------------------------------------------------------
(* Properties of the treemap (SpecTreemap) *)

WeightType ==
    IF IsNull(controls.weight_comparison_treemap_weight_type) THEN "kilo_neto"
    ELSE Val(controls.weight_comparison_treemap_weight_type)

ViewOffices == ColumnValues(View.rows, "ADUANA")

\* the summed weight of office o in the filtered view
Weight(o) == group_sum(View.rows, WeightType, o)

\* 20 times the 0.05-quantile of the offices' summed weights, for at most
\* 20 offices: the least weight plus (n - 1) / 20 of the step to the next
\* weight in ascending order
Quantile20 ==
    LET n == Cardinality(ViewOffices)
        least == CHOOSE o \in ViewOffices : \A q \in ViewOffices : Weight(o) <= Weight(q)
        others == ViewOffices \ {least}
        next == CHOOSE o \in others : \A q \in others : Weight(o) <= Weight(q)
    IN  IF n = 1 THEN 20 * Weight(least)
        ELSE 20 * Weight(least) + (n - 1) * (Weight(next) - Weight(least))

TreemapOffices ==
    IF weight_comparison_treemap.figure.kind = "treemap"
    THEN {Val(weight_comparison_treemap.figure.data[k].ADUANA) :
             k \in Positions(weight_comparison_treemap.figure.data)}
    ELSE {}

\* C17: the treemap shows an office exactly when its summed weight of the
\* selected kind is at least the 0.05-quantile of the summed weights of all
\* offices of the filtered view: offices strictly below are dropped and no
\* other office is.
C17_KeptIffAtLeastQuantile ==
    (weight_comparison_treemap.status = "returned" /\ View.status = "ok"
        /\ ViewOffices # {} /\ Cardinality(ViewOffices) <= 20) =>
        /\ weight_comparison_treemap.error = ""
        /\ TreemapOffices = {o \in ViewOffices : 20 * Weight(o) >= Quantile20}

\* of three offices the one below the quantile was dropped and the two
\* others were kept
C17_Witness ==
    /\ weight_comparison_treemap.status = "returned"
    /\ View.status = "ok"
    /\ Cardinality(ViewOffices) = 3
    /\ Cardinality(TreemapOffices) = 2

----------------------------------------------------------------------------
(* Order of the filter steps (Spec) *)

TopOn == filters.top_ports_filter # TopAll

\* the rows left by the office-membership filter
Members == select_ports(df.rows, filters)

\* the offices of the top-N rows among them
TopOffices == nlargest_ports(Members, filters.top_ports_filter.n)

\* r passes the port-type and range filters
PassesTypeAndRanges(r) ==
    /\ type_filter_on(filters) => TypeOf(r) \in filters.port_type_filter
    /\ InAllRanges(r)

Labels(rows) == [i \in Positions(rows) |-> rows[i].index]

\* C18: the top-N offices are chosen from the rows left by the
\* office-membership filter alone, before the port-type and range filters:
\* the result is made of the rows of those offices that pass the port-type
\* and range filters, in table order, so a row removed by these filters
\* still counted when the top N were chosen and the later filters only
\* shrink the set of offices.
C18_TopNBeforeTypeAndRanges ==
    (Ran /\ TopOn) =>
        /\ Labels(Out) =
              Labels(SelectSeq(Members, LAMBDA r :
                         r.ADUANA \in TopOffices /\ PassesTypeAndRanges(r)))
        /\ Offices(Out) \subseteq TopOffices

\* the rows of the chosen office were all removed by a later filter while
\* rows of another office, left out of the top N, pass those filters
C18_Witness ==
    /\ Ran /\ TopOn
    /\ Out = <<>>
    /\ TopOffices # {}
    /\ \E i \in Positions(Members) :
          Members[i].ADUANA \notin TopOffices /\ PassesTypeAndRanges(Members[i])

----------------------------------------------------------------------------
(* Properties of the bar ranking (SpecRanking) *)

BarRows ==
    IF port_ranking_value.figure.kind = "bar" THEN port_ranking_value.figure.data ELSE <<>>

RequestedN ==
    IF IsNull(controls.port_ranking_value_top_n) THEN 10
    ELSE Val(controls.port_ranking_value_top_n)

RequestedOrder ==
    IF IsNull(controls.port_ranking_value_sort_order) THEN "desc"
    ELSE Val(controls.port_ranking_value_sort_order)

OfficeTotal(o) == SumTotal(View.rows, Some(o))

BarOffices == {Val(BarRows[k].ADUANA) : k \in Positions(BarRows)}

\* C20: the bar ranking shows the N offices with the greatest summed totals
\* when the order is descending and the N with the smallest when it is
\* ascending (all offices when there are fewer than N), one bar per office
\* with its summed total, and emits them in the reverse of the requested
\* order: ascending totals for "desc", descending totals for "asc".
C20_TopNThenReversed ==
    (port_ranking_value.status = "returned" /\ View.status = "ok" /\ Len(View.rows) > 0) =>
        /\ port_ranking_value.error = ""
        /\ port_ranking_value.figure.kind = "bar"
        /\ Len(BarRows) = IF Cardinality(ViewOffices) < RequestedN
                          THEN Cardinality(ViewOffices) ELSE RequestedN
        /\ Cardinality(BarOffices) = Len(BarRows)
        /\ BarOffices \subseteq ViewOffices
        /\ \A k \in Positions(BarRows) :
              BarRows[k].total = Some(OfficeTotal(Val(BarRows[k].ADUANA)))
        /\ \A o \in ViewOffices \ BarOffices :
              \A q \in BarOffices :
                  IF RequestedOrder = "desc" THEN OfficeTotal(o) <= OfficeTotal(q)
                  ELSE OfficeTotal(o) >= OfficeTotal(q)
        /\ \A k \in 1..(Len(BarRows) - 1) :
              IF RequestedOrder = "desc"
              THEN Val(BarRows[k].total) <= Val(BarRows[k + 1].total)
              ELSE Val(BarRows[k].total) >= Val(BarRows[k + 1].total)

\* more offices than N, descending order requested: an office with a
\* smaller total than a shown one was left out, and the bars go from the
\* smallest total shown to the greatest
C20_Witness ==
    /\ port_ranking_value.status = "returned"
    /\ RequestedOrder = "desc"
    /\ Cardinality(ViewOffices) > RequestedN
    /\ Len(BarRows) = RequestedN
    /\ Val(BarRows[1].total) < Val(BarRows[RequestedN].total)
    /\ \E o \in ViewOffices \ BarOffices : OfficeTotal(o) < Val(BarRows[RequestedN].total)

----------------------------------------------------------------------------
(* Properties of the scatter (SpecScatter) *)

ScatterPoints ==
    IF volume_vs_value_scatter.figure.kind = "scatter"
    THEN volume_vs_value_scatter.figure.data ELSE <<>>

\* the size factor in tenths
SizeFactor ==
    IF IsNull(controls.volume_vs_value_scatter_size_factor) THEN 10
    ELSE Val(controls.volume_vs_value_scatter_size_factor)

ScatterWeight ==
    IF IsNull(controls.volume_vs_value_scatter_weight_type) THEN "kilo_neto"
    ELSE Val(controls.volume_vs_value_scatter_weight_type)

\* the rows of the view that the scatter plots: those with a total, a
\* weight of the chosen type and a merchandise count
PlottedRows ==
    SelectSeq(View.rows, LAMBDA r : Len(r.total) = 1 /\ Len(r[ScatterWeight]) = 1
                                    /\ Len(r.mercaderias_distintas) = 1)

PlottedCounts == ColumnValues(PlottedRows, "mercaderias_distintas")

\* size s, a fraction, equals a / b tenths
IsTenths(s, a, b) == s.kind = "num" /\ s.num * 10 * b = a * s.den

C22_ZeroVarianceIsNoError ==
    (/\ volume_vs_value_scatter.status = "returned"
     /\ View.status = "ok"
     /\ Cardinality(PlottedCounts) = 1) =>
        /\ volume_vs_value_scatter.error = ""
        /\ \/ volume_vs_value_scatter.figure.title = "No data available"
           \/ /\ Len(ScatterPoints) = Len(PlottedRows)
              /\ \A k \in Positions(ScatterPoints) : ScatterPoints[k].size.kind = "num"

----------------------------------------------------------------------------
(* Properties of the radar's values and traces (SpecRadar) *)

\* the offices that have a value (not 0 / 0) of metric m
Valued(m) == {o \in PlottedOffices : Fraction(o, m) # <<0, 0>>}

\* metric m of office o is at most that of office q (n / 0 is infinite)
AtMost(o, q, m) ==
    Fraction(o, m)[1] * Fraction(q, m)[2] <= Fraction(q, m)[1] * Fraction(o, m)[2]

\* the value plotted for office o and metric m
Plotted(o, m) ==
    LET k == CHOOSE j \in Positions(RadarTraces) : RadarTraces[j].name = o
    IN  RadarTraces[k].r[m]

\* C23: with normalization enabled every plotted value of every metric is
\* a number in [0, 1], and for a metric whose values differ the office
\* with the least value is plotted at 0 and the office with the greatest
\* at 1, each metric by its own range.
C23_NormalizedInUnitRange ==
    (/\ Normalizing
     /\ View.status = "ok"
     /\ port_performance_radar.status = "returned") =>
        \A m \in 1..Len(metrics) :
            /\ \A k \in Positions(RadarTraces) :
                  /\ RadarTraces[k].r[m].kind = "num"
                  /\ RadarTraces[k].r[m].num <= RadarTraces[k].r[m].den
            /\ (Valued(m) # {} /\ ~Flat(m)) =>
                  \A o \in Valued(m) :
                      /\ (\A q \in Valued(m) : AtMost(o, q, m)) => Plotted(o, m) = Num(0, 1)
                      /\ (\A q \in Valued(m) : AtMost(q, o, m)) => Plotted(o, m) = Num(1, 1)

\* the selected offices that have rows in the view, in the order selected
PlottedInOrder ==
    SelectSeq(controls.port_performance_radar_ports, LAMBDA o : o \in PlottedOffices)

\* value v is the fraction a / b: infinite for b = 0 < a, NaN for 0 / 0
IsFraction(v, a, b) ==
    IF b # 0 THEN v.kind = "num" /\ v.num * b = a * v.den
    ELSE IF a # 0 THEN v.kind = "inf" ELSE v.kind = "nan"

\* C24: every trace has six values, those of total value, net weight,
\* merchandise count, weight efficiency and value per kg in this order and
\* the first value again, under angular labels closed the same way; there
\* is one trace per selected port that has rows in the filtered view, in
\* the order of the selection, and none for a selected port without rows.
C24_ClosedTracesInSelectionOrder ==
    (View.status = "ok" /\ port_performance_radar.figure.kind = "scatterpolar") =>
        /\ [k \in Positions(RadarTraces) |-> RadarTraces[k].name] = PlottedInOrder
        /\ \A k \in Positions(RadarTraces) :
              LET r == RadarTraces[k].r
                  theta == RadarTraces[k].theta
                  o == RadarTraces[k].name
              IN  /\ Len(r) = 6
                  /\ r[6] = r[1]
                  /\ theta = <<"Total Value", "Net Weight (kg)", "Merchandise Types",
                               "Weight Efficiency", "Value per kg", "Total Value">>
                  /\ ~Normalizing =>
                        \A m \in 1..Len(metrics) :
                            IsFraction(r[m], Fraction(o, m)[1], Fraction(o, m)[2])
                  /\ Normalizing =>
                        \A m \in 1..Len(metrics) :
                            (/\ ~Flat(m)
                             /\ \A q \in PlottedOffices : Fraction(q, m)[2] # 0) =>
                                \A lo, hi \in PlottedOffices :
                                    (/\ \A q \in PlottedOffices : AtMost(lo, q, m)
                                     /\ \A q \in PlottedOffices : AtMost(q, hi, m)) =>
                                        IsFraction(r[m],
                                            (Fraction(o, m)[1] * Fraction(lo, m)[2]
                                               - Fraction(lo, m)[1] * Fraction(o, m)[2])
                                              * Fraction(hi, m)[2],
                                            (Fraction(hi, m)[1] * Fraction(lo, m)[2]
                                               - Fraction(lo, m)[1] * Fraction(hi, m)[2])
                                              * Fraction(o, m)[2])

\* three ports selected, one of them without rows in the view: two traces
\* in the order selected, which is not the order of the office names, with
\* values that differ between the metrics
C24_Witness ==
    /\ port_performance_radar.figure.kind = "scatterpolar"
    /\ Len(controls.port_performance_radar_ports) = 3
    /\ Len(RadarTraces) = 2
    /\ str_lt(RadarTraces[2].name, RadarTraces[1].name)
    /\ ~Normalizing
    /\ RadarTraces[1].r[1] # RadarTraces[1].r[2]
    /\ RadarTraces[1].r[6] = RadarTraces[1].r[1]

----------------------------------------------------------------------------
(* Properties of filter_data's argument (Spec) *)

\* C25: filter_data never modifies the table it is called with: after the
\* callback, whatever its filter parameters, the loaded table has the rows,
\* the columns and the values it had right after load (a port-type
\* selection adds the port_type column to the working table only), and
\* the same holds for a filtered table that is filtered again.
C25_InputNotModified ==
    /\ df = get_data(file)
    /\ (filtered.status = "ok" /\ refiltered.status # "none") =>
           filtered = filter_data(df, filters)

\* a port-type selection with no port selected and no top-N, applied to
\* the loaded table and again to its result: the results carry the
\* port_type column and the loaded table does not
C25_Witness ==
    /\ type_filter_on(filters)
    /\ filters.port_selection = {}
    /\ filters.top_ports_filter = TopAll
    /\ filtered.status = "ok"
    /\ refiltered.status = "ok"
    /\ Len(filtered.rows) > 0
    /\ "port_type" \in filtered.columns
    /\ \A k \in Positions(filtered.rows) : ~IsNull(filtered.rows[k].port_type)
    /\ "port_type" \notin df.columns
    /\ \A k \in Positions(df.rows) : IsNull(df.rows[k].port_type)

----------------------------------------------------------------------------
(* Properties of the registry and the layout (SpecLayout) *)

ChartSet == {ChartNames[k] : k \in DOMAIN ChartNames}

\* the items of the layout that stand for charts
ChartItems ==
    SelectSeq(layout_items.items, LAMBDA i : i.kind = "error card" \/ i.name \in ChartSet)

\* the charts whose import did not fail, in the fixed order
ImportedCharts == SelectSeq(ChartNames, LAMBDA n : modules[n] # "import raises")

\* a bare constructor (filter, cards or table) was called and raised
BareRaised ==
    \/ filter_component = "component" /\ modules["filter_component"] = "component raises"
    \/ data_card_component = "component" /\ modules["data_cards"] = "component raises"
    \/ data_table_component = "component" /\ modules["data_table"] = "component raises"

\* C26: once the imports have run, each of the five chart names is in
\* exactly one of component_registry and failed_components; component()
\* returns unless a constructor other than a chart's raised, and its
\* layout holds, in the fixed order, one item per chart whose import
\* succeeded: the chart's layout, or an error card naming the chart when
\* its constructor raised; charts whose import failed are absent.
C26_ChartsFailSeparately ==
    (filter_component # "unbound") =>
        /\ \A n \in ChartSet :
              /\ (n \in DOMAIN component_registry) # (n \in DOMAIN failed_components)
              /\ (n \in DOMAIN failed_components) <=> (modules[n] = "import raises")
        /\ (layout_items.status # "none" /\ ~BareRaised) =>
              /\ layout_items.status = "returned"
              /\ Len(ChartItems) = Len(ImportedCharts)
              /\ \A k \in DOMAIN ChartItems :
                    IF modules[ImportedCharts[k]] = "component raises"
                    THEN /\ ChartItems[k].kind = "error card"
                         /\ ChartItems[k].title[1] = "Error in "
                         /\ ChartItems[k].title[2] = ImportedCharts[k]
                    ELSE /\ ChartItems[k].kind = "layout"
                         /\ ChartItems[k].name = ImportedCharts[k]

\* a layout in which the first chart is missing after a failed import, the
\* third is an error card and the three others follow in order
C26_Witness ==
    /\ layout_items.status = "returned"
    /\ DOMAIN failed_components = {"port_ranking_value"}
    /\ Len(ChartItems) = 4
    /\ ChartItems[1].name = "volume_vs_value_scatter"
    /\ ChartItems[2].kind = "error card"
    /\ ChartItems[2].title[2] = "merchandise_diversity_ranking"
    /\ ChartItems[3].name = "weight_comparison_treemap"
    /\ ChartItems[4].name = "port_performance_radar"
    /\ ChartItems[4].edit

----------------------------------------------------------------------------
(* Properties of the range comparisons on null values (Spec) *)

NullNumeric(r) == \E c \in NumericColumns : IsNull(r[c])

\* C27: a row that is null in any of total, kilo_neto, kilo_bruto or
\* mercaderias_distintas is in no output of filter_data, whatever the
\* bounds, those taken from the data's own min and max included.
C27_NullNumericRowsDropped ==
    Ran =>
        /\ \A i \in Positions(Out) : ~NullNumeric(Out[i])
        /\ \A j \in Positions(df.rows) :
              NullNumeric(df.rows[j]) =>
                  \A i \in Positions(Out) : Out[i].index # df.rows[j].index

\* under the initial filter settings, with every bound at the data's min
\* or max, the row without a total is dropped and the others are kept: the
\* filtered count is positive and below the total count
C27_Witness ==
    /\ Ran
    /\ filters = DefaultFilters(df.rows)
    /\ \E j \in Positions(df.rows) : NullNumeric(df.rows[j])
    /\ Len(Out) > 0
    /\ Len(Out) = Cardinality({j \in Positions(df.rows) : ~NullNumeric(df.rows[j])})
    /\ total_results.filtered_count < total_results.count

----------------------------------------------------------------------------
(* Properties of the conversion of the merchandise bounds (Spec) *)

\* t is the integer part of the number of h half units: the integer
\* nearest to it between it and 0
IsIntegerPart(t, h) ==
    IF h >= 0 THEN 2 * t <= h /\ h < 2 * t + 2
    ELSE h <= 2 * t /\ 2 * t - 2 < h

Count(r) == Val(r.mercaderias_distintas)

\* C28: the two bounds of the merchandise count are truncated toward zero
\* before the comparison and the six other bounds are compared as given:
\* of the rows that reach the range filters, exactly those are kept whose
\* total, net and gross weight lie between the given bounds and whose
\* count lies between the integer parts of its bounds; so a row whose
\* count is the integer part of a fractional lower bound above 0, or of a
\* fractional upper bound below 0, is kept.
C28_MerchandiseBoundsTruncated ==
    Ran =>
        \A j \in Positions(BeforeRanges) :
            LET r == BeforeRanges[j]
                kept == \E i \in Positions(Out) : Out[i].index = r.index
                given == /\ Within(r.total, Val(filters.total_value_min),
                                   Val(filters.total_value_max))
                         /\ Within(r.kilo_neto, Val(filters.net_weight_min),
                                   Val(filters.net_weight_max))
                         /\ Within(r.kilo_bruto, Val(filters.gross_weight_min),
                                   Val(filters.gross_weight_max))
            IN  /\ kept => given
                /\ (given /\ ~IsNull(r.mercaderias_distintas)) =>
                      \A lo, hi \in -1..Count(r) + 1 :
                          (/\ IsIntegerPart(lo, Val(filters.merchandise_count_min))
                           /\ IsIntegerPart(hi, Val(filters.merchandise_count_max))) =>
                              (kept <=> (lo <= Count(r) /\ Count(r) <= hi))

\* with -0.5 as the upper bound of the merchandise count a row with a
\* count of 0 was kept, and a row with a count above 0 was dropped
C28_Witness ==
    /\ Ran
    /\ Val(filters.merchandise_count_max) = -1
    /\ \E i \in Positions(Out) : Count(Out[i]) = 0
    /\ Len(Out) < Len(BeforeRanges)

----------------------------------------------------------------------------
(* Properties of the treemap's trim (SpecCallbacks, SpecTreemap) *)

\* C29: whenever the filtered view is not empty the treemap is drawn and
\* shows the office with the greatest summed weight: the trimmed set is
\* not empty and the result "No significant data to display" does not
\* occur.
C29_HeaviestOfficeKept ==
    (/\ weight_comparison_treemap.status = "returned"
     /\ View.status = "ok"
     /\ Len(View.rows) > 0) =>
        /\ weight_comparison_treemap.figure.text # "No significant data to display"
        /\ weight_comparison_treemap.figure.kind = "treemap"
        /\ TreemapOffices # {}
        /\ \A o \in ViewOffices :
              (\A q \in ViewOffices : Weight(q) <= Weight(o)) => o \in TreemapOffices

====
